---------------------------- MODULE Spec2Model ----------------------------
(***************************************************************************)
(* A model of the SNData / sndata data-access layer.                       *)
(*                                                                         *)
(* The program has no threads: every public function is one atomic step    *)
(* that reads the local data directory and returns a value or raises.      *)
(* The state is the release a behaviour looks at, the content of its data  *)
(* directory, the result cache of load_table, and the last call with its   *)
(* outcome.                                                                *)
(*                                                                         *)
(* Dates are counted in half days, so that 2400000.5 is an integer.        *)
(* Strings the code takes apart character by character (file names,        *)
(* object ids) are sequences of one-character strings.                     *)
(***************************************************************************)
EXTENDS Integers, Sequences, FiniteSets, TLC

VARIABLES
    release,    \* the data release this behaviour is about
    disk,       \* directory key -> NoDir, or the set of file names in it
    cache,      \* lru_cache of jla.betoule14.load_table: the table ids held
    call,       \* the last call: a record with field op and its arguments
    ret,        \* its outcome: [exc |-> name or "none", val |-> value]
    opened,     \* the files the last call opened for reading
    refs,       \* the values calls of a cached function handed to callers
    requests,   \* the HTTP requests the last call made, in order
    warnings,   \* the warnings the last call emitted, in order
    registry,   \* the bandpass registry of sncosmo
    environ     \* os.environ

\* What lies outside the local data: callers' values, the network, sncosmo
\* and the environment.
world == <<refs, requests, warnings, registry, environ>>

vars == <<release, disk, cache, call, ret, opened, world>>

(***************************************************************************)
(* Bounds                                                                  *)
(***************************************************************************)
\* Half days sampled on either side of each threshold of convert_to_jd.
DateWindow == 8

\* The maxsize a function is given by lru_copy_cache, and the number of
\* returned values its callers hold on to at one time.
MaxSize == 2

MaxHeld == 2

\* The largest degrees, minutes and seconds hourangle_to_degrees is given.
MaxAngle == 3

\* The table rows of a File Summary
MaxRows == 3

(***************************************************************************)
(* Outcomes                                                                *)
(***************************************************************************)
NoVal == <<"no value">>

Return(v) == [exc |-> "none", val |-> v]

Raise(e) == [exc |-> e, val |-> NoVal]

NoCall == [op |-> "none"]

(***************************************************************************)
(* Strings as the code handles them                                        *)
(***************************************************************************)
\* The characters in use, in code point order.
Alphabet ==
    <<"-", ".", "0", "1", "2", "3", "4", "5", "6", "7", "8", "9",
      "A", "B", "C", "D", "E", "F", "G", "H", "I", "J", "K", "L", "M",
      "N", "O", "P", "Q", "R", "S", "T", "U", "V", "W", "X", "Y", "Z",
      "_",
      "a", "b", "c", "d", "e", "f", "g", "h", "i", "j", "k", "l", "m",
      "n", "o", "p", "q", "r", "s", "t", "u", "v", "w", "x", "y", "z">>

Ord(c) == CHOOSE i \in 1 .. Len(Alphabet) : Alphabet[i] = c

Chars(s) == {s[i] : i \in 1 .. Len(s)}

\* a < b for Python strings.
StrLess(a, b) ==
    \E i \in 1 .. (Len(a) + 1) :
        /\ \A j \in 1 .. (i - 1) : j <= Len(b) /\ a[j] = b[j]
        /\ i <= Len(b)
        /\ (i > Len(a) \/ Ord(a[i]) < Ord(b[i]))

StrLeq(a, b) == a = b \/ StrLess(a, b)

startswith(s, prefix) ==
    /\ Len(prefix) <= Len(s)
    /\ SubSeq(s, 1, Len(prefix)) = prefix

endswith(s, suffix) ==
    /\ Len(suffix) <= Len(s)
    /\ SubSeq(s, Len(s) - Len(suffix) + 1, Len(s)) = suffix

\* str.lstrip(chars) and str.rstrip(chars): chars is a set of characters.
RECURSIVE lstrip(_, _)
lstrip(s, chars) ==
    IF s # <<>> /\ Head(s) \in chars THEN lstrip(Tail(s), chars) ELSE s

RECURSIVE rstrip(_, _)
rstrip(s, chars) ==
    IF s # <<>> /\ s[Len(s)] \in chars
    THEN rstrip(SubSeq(s, 1, Len(s) - 1), chars)
    ELSE s

\* str.split(sep) for a one-character separator.
RECURSIVE split(_, _)
split(s, sep) ==
    IF \A i \in 1 .. Len(s) : s[i] # sep THEN <<s>>
    ELSE LET i == CHOOSE k \in 1 .. Len(s) :
                      /\ s[k] = sep
                      /\ \A j \in 1 .. (k - 1) : s[j] # sep
         IN  <<SubSeq(s, 1, i - 1)>> \o split(SubSeq(s, i + 1, Len(s)), sep)

\* s[-n:] and s[:-n].
last_chars(s, n) == IF Len(s) <= n THEN s ELSE SubSeq(s, Len(s) - n + 1, Len(s))

drop_last(s, n) == IF Len(s) <= n THEN <<>> ELSE SubSeq(s, 1, Len(s) - n)

Range(seq) == {seq[i] : i \in 1 .. Len(seq)}

\* sorted(list) for a list of strings.
RECURSIVE sorted(_)
sorted(list) ==
    IF list = <<>> THEN <<>>
    ELSE LET i == CHOOSE k \in 1 .. Len(list) :
                      \A j \in 1 .. Len(list) : StrLeq(list[k], list[j])
             rest == [j \in 1 .. (Len(list) - 1) |->
                          IF j < i THEN list[j] ELSE list[j + 1]]
         IN  <<list[i]>> \o sorted(rest)

\* One enumeration of a set, in some order.
Enumerations(S) ==
    {e \in [1 .. Cardinality(S) -> S] : \A x \in S : \E i \in DOMAIN e : e[i] = x}

\* A list holding the members of a set once each (Python: list(set(...))).
AsList(S) == CHOOSE e \in Enumerations(S) : TRUE

(***************************************************************************)
(* The local data directory                                                *)
(***************************************************************************)
NoDir == [exists |-> FALSE, files |-> {}]

Dir(files) == [exists |-> TRUE, files |-> files]

\* Path.exists()
exists(path) == disk[path].exists

\* Path.glob('<prefix>*<suffix>'): the names, in no order.
glob(path, prefix, suffix) ==
    {f \in disk[path].files :
        /\ Len(f.name) >= Len(prefix) + Len(suffix)
        /\ startswith(f.name, prefix)
        /\ endswith(f.name, suffix)}

Names(files) == {f.name : f \in files}

\* Directory contents never hold two files of one name.
UniqueNames(files) == \A f, g \in files : f.name = g.name => f = g

(***************************************************************************)
(* astropy tables                                                          *)
(***************************************************************************)
\* A table: its column names, its rows (column name -> value), its meta.
Table(colnames, rows, meta) ==
    [colnames |-> colnames, rows |-> rows, meta |-> meta]

\* dict[key] = value
Put(dict, key, value) ==
    [k \in (DOMAIN dict) \cup {key} |-> IF k = key THEN value ELSE dict[k]]

\* del dict[key]
Del(dict, key) == [k \in (DOMAIN dict) \ {key} |-> dict[k]]

EmptyDict == [k \in {} |-> NoVal]

\* Nothing handed out, requested, warned of, registered or set.
WorldIdle ==
    /\ refs = <<>>
    /\ requests = <<>>
    /\ warnings = <<>>
    /\ registry = [loaders |-> {}, instances |-> EmptyDict]
    /\ environ = EmptyDict

(***************************************************************************)
(* sndata/_utils.py: require_data_path                                     *)
(***************************************************************************)
\* A slip that raises only when none of the paths exists.
require_data_path_all(data_dirs) ==
    IF data_dirs # <<>> /\ \A i \in 1 .. Len(data_dirs) : ~exists(data_dirs[i])
    THEN "NoDownloadedData"
    ELSE "none"

\* The exception require_data_path raises, "none" when it returns.
RECURSIVE require_data_path(_)
require_data_path(data_dirs) ==
    IF data_dirs = <<>> THEN "none"
    ELSE IF ~exists(Head(data_dirs)) THEN "NoDownloadedData"
    ELSE require_data_path(Tail(data_dirs))

(***************************************************************************)
(* sndata/_utils.py: convert_to_jd                                         *)
(***************************************************************************)
snoopy_offset == 2 * 53000

mjd_offset == 2 * 2400000 + 1

\* A slip that turns the second test into an else branch.
convert_to_jd_elif(date) ==
    IF date < snoopy_offset THEN date + snoopy_offset
    ELSE IF date < mjd_offset THEN date + mjd_offset
    ELSE date

\* A slip that treats the first MJD day as a Snoopy date.
convert_to_jd_leq(date) ==
    LET d1 == IF date <= snoopy_offset THEN date + snoopy_offset ELSE date
    IN  IF d1 < mjd_offset THEN d1 + mjd_offset ELSE d1

convert_to_jd(date) ==
    LET d1 == IF date < snoopy_offset THEN date + snoopy_offset ELSE date
    IN  IF d1 < mjd_offset THEN d1 + mjd_offset ELSE d1

\* The dates the checks feed to convert_to_jd.
Around(x) == (x - DateWindow) .. (x + DateWindow)

Dates ==
    (0 .. DateWindow) \cup Around(snoopy_offset) \cup Around(mjd_offset)
        \cup Around(snoopy_offset + mjd_offset)

SnoopyDates == {d \in Dates : d < snoopy_offset}

\* tests/test_utils.py, setUpClass: one date in its three formats.
DateFormats == {"snoopy", "mjd", "jd"}

test_date(snoopy_date, fmt) ==
    LET mjd_date == snoopy_date + snoopy_offset
        jd_date  == mjd_date + mjd_offset
    IN  CASE fmt = "snoopy" -> snoopy_date
          [] fmt = "mjd"    -> mjd_date
          [] fmt = "jd"     -> jd_date

JDIdle ==
    /\ release = "none"
    /\ disk = <<>>
    /\ cache = EmptyDict
    /\ opened = {}
    /\ WorldIdle

InitJD ==
    /\ JDIdle
    /\ call = NoCall
    /\ ret = Return(NoVal)

\* convert_to_jd on a date of unknown format.
ConvertDate ==
    \E d \in Dates :
        /\ call' = [op |-> "convert_to_jd", date |-> d, fmt |-> "raw",
                    snoopy_date |-> -1]
        /\ ret' = Return(convert_to_jd(d))
        /\ UNCHANGED <<release, disk, cache, opened, world>>

\* The three tests of ConvertToJD: the same date in each of its formats.
ConvertTestDate ==
    \E s \in SnoopyDates, f \in DateFormats :
        /\ call' = [op |-> "convert_to_jd", date |-> test_date(s, f),
                    fmt |-> f, snoopy_date |-> s]
        /\ ret' = Return(convert_to_jd(test_date(s, f)))
        /\ UNCHANGED <<release, disk, cache, opened, world>>

\* convert_to_jd on a value convert_to_jd returned.
ConvertAgain ==
    /\ call.op = "convert_to_jd"
    /\ call' = [op |-> "convert_to_jd", date |-> ret.val, fmt |-> "result",
                snoopy_date |-> -1]
    /\ ret' = Return(convert_to_jd(ret.val))
    /\ UNCHANGED <<release, disk, cache, opened, world>>

NextJD == ConvertDate \/ ConvertTestDate \/ ConvertAgain

SpecJD == InitJD /\ [][NextJD]_vars

(***************************************************************************)
(* The releases and the files their archives hold                          *)
(***************************************************************************)
Releases ==
    {"csp_dr1", "csp_dr3", "des_sn3yr", "essence_narayan16", "jla_betoule14"}

\* --- CSP DR1: spectra SN<id>_<date>_<range>_<telescope>_<instrument>.dat
DR1Spectrum(name, redshift, obs_date) ==
    [name |-> name, redshift |-> redshift, max_date |-> 2 * 53264,
     obs_date |-> obs_date, epoch |-> 3,
     rows |-> <<[wavelength |-> 3700, flux |-> 11],
                [wavelength |-> 3702, flux |-> 12]>>]

DR1Files ==
    {DR1Spectrum(
        <<"S", "N", "0", "4", "e", "f", "_", "0", "4", "0", "9", "0", "8", "_", "b", "0", "1", "_", "D", "U", "P", "_", "W", "F", ".", "d", "a", "t">>,
        31, 2 * 53260),
     DR1Spectrum(
        <<"S", "N", "0", "4", "e", "f", "_", "0", "4", "0", "9", "1", "6", "_", "b", "0", "1", "_", "C", "L", "A", "_", "L", "D", ".", "d", "a", "t">>,
        31, 2 * 2453270 + 1),
     DR1Spectrum(
        <<"S", "N", "0", "5", "k", "e", "_", "0", "5", "1", "1", "2", "0", "_", "b", "0", "1", "_", "N", "T", "T", "_", "E", "M", ".", "d", "a", "t">>,
        5, 2 * 710),
     DR1Spectrum(<<"R", "E", "A", "D", "M", "E">>, 0, 0)}

\* --- CSP DR3 (SNData): photometry SN<id>_snpy.txt
DR3Files ==
    {[name |-> <<"S", "N", "2", "0", "0", "4", "e", "f", "_", "s", "n", "p", "y", ".", "t", "x", "t">>],
     [name |-> <<"S", "N", "2", "0", "0", "5", "e", "l", "_", "s", "n", "p", "y", ".", "t", "x", "t">>],
     [name |-> <<"S", "N", "2", "0", "0", "5", "k", "e", "_", "s", "n", "p", "y", ".", "t", "x", "t">>],
     [name |-> <<"n", "o", "t", "e", "s", ".", "m", "d">>]}

\* --- CSP DR3 (SNData): the tables of the paper, table<n>.dat and ReadMe
DR3Tables ==
    {[name |-> <<"t", "a", "b", "l", "e", "1", ".", "d", "a", "t">>], [name |-> <<"R", "e", "a", "d", "M", "e">>]}

\* --- DES SN3YR: photometry des_<id, 8 digits>.dat and the list of them
SN3YRRow(mjd, band, flux) ==
    [VARLIST |-> "OBS:", MJD |-> mjd, BAND |-> band, FIELD |-> "X3", FLUXCAL |-> flux,
     FLUXCALERR |-> 2, ZPFLUX |-> 31, PSF |-> 2, SKYSIG |-> 50, GAIN |-> 1,
     PHOTFLAG |-> 0, PHOTPROB |-> 1]

SN3YRFiles ==
    {[name |-> <<"d", "e", "s", "_", "0", "1", "2", "4", "8", "6", "7", "7", ".", "d", "a", "t">>, ra |-> 54, dec |-> -27, z |-> 35,
      z_err |-> 1,
      rows |-> <<SN3YRRow(2 * 56536, "g", 10), SN3YRRow(2 * 56540, "r", -3),
                 SN3YRRow(2 * 56540, "g", 12)>>],
     [name |-> <<"d", "e", "s", "_", "0", "1", "2", "5", "0", "0", "1", "7", ".", "d", "a", "t">>, ra |-> 9, dec |-> -43, z |-> 18,
      z_err |-> 1,
      rows |-> <<SN3YRRow(2 * 56600, "z", 7)>>]}

SN3YRLists ==
    {<<>>,
     <<<<"d", "e", "s", "_", "0", "1", "2", "4", "8", "6", "7", "7", ".", "d", "a", "t">>, <<"d", "e", "s", "_", "0", "1", "2", "5", "0", "0", "1", "7", ".", "d", "a", "t">>>>,
     <<<<"d", "e", "s", "_", "0", "1", "2", "5", "0", "0", "1", "7", ".", "d", "a", "t">>, <<"d", "e", "s", "_", "0", "1", "2", "4", "8", "6", "7", "7", ".", "d", "a", "t">>, <<"d", "e", "s", "_", "0", "1", "2", "6", "1", "5", "7", "9", ".", "d", "a", "t">>>>}

\* --- ESSENCE Narayan16: photometry <id>.W6yr.clean.nn2.Wstd.dat, whose
\* first two lines are '# <keys>' and '# <values>'
Narayan16Suffix == <<".", "W", "6", "y", "r", ".", "c", "l", "e", "a", "n", ".", "n", "n", "2", ".", "W", "s", "t", "d", ".", "d", "a", "t">>

Narayan16Row(obs, mjd, passband, flux, lo, hi) ==
    [Observation |-> obs, MJD |-> mjd, Passband |-> passband, Flux |-> flux,
     Fluxerr_lo |-> lo, Fluxerr_hi |-> hi]

Narayan16Files ==
    {[name |-> <<"b", "0", "1", "0">> \o Narayan16Suffix,
      keys |-> <<"objid", "ra", "dec", "z", "z_err">>,
      vals |-> <<<<"b", "0", "1", "0">>, "02:01:54", "-04:32:25", "0.591", "0.01">>,
      rows |-> <<Narayan16Row(1, 2 * 52590, "R", 4, 1, 2),
                 Narayan16Row(2, 2 * 53290, "I", 9, 3, 2)>>],
     [name |-> <<"d", "0", "3", "3">> \o Narayan16Suffix,
      keys |-> <<"objid", "ra", "dec", "type", "zCMB">>,
      vals |-> <<<<"d", "0", "3", "3">>, "02:31:05", "-08:05:42", "Ia", "0.53">>,
      rows |-> <<Narayan16Row(1, 2 * 52950, "I", 6, 2, 2)>>],
     [name |-> <<"R", "e", "a", "d", "M", "e">>, keys |-> <<>>, vals |-> <<>>, rows |-> <<>>]}

\* --- JLA Betoule14: light curves lc-<id>.list with '@<key> <value>' lines
\* before the data, and the paper's tables
Betoule14Row(date, flux, filter) ==
    [Date |-> date, Flux |-> flux, Fluxerr |-> 1, ZP |-> 275,
     Filter |-> filter, MagSys |-> "VEGA2"]

Betoule14Files ==
    {[name |-> <<"l", "c", "-", "0", "3", "D", "1", "a", "u", ".", "l", "i", "s", "t">>,
      meta |-> <<<<"SURVEY", "SNLS">>, <<"Z_HELIO", 504>>>>,
      rows |-> <<Betoule14Row(2 * 52880, 3, "MEGACAMPSF::g"),
                 Betoule14Row(2 * 52900, 8, "MEGACAMPSF::r")>>],
     [name |-> <<"l", "c", "-", "s", "n", "1", "9", "9", "0", "O", ".", "l", "i", "s", "t">>,
      meta |-> <<<<"Z_HELIO", 31>>>>,
      rows |-> <<Betoule14Row(2 * 48060, 40, "STANDARD::B")>>]}

\* A line of a ReadMe: whether it starts with a blank, its first word, and
\* the words after it.
Line(indent, first, rest) == [indent |-> indent, first |-> first, rest |-> rest]

Betoule14ReadMe ==
    <<Line(FALSE, <<"J", "/", "A", "+", "A", "/", "5", "6", "8", "/", "A", "2", "2">>, <<"Joint", "analysis">>),
      Line(FALSE, <<"F", "i", "l", "e">>, <<"Summary:">>),
      Line(FALSE, <<"-", "-", "-">>, <<>>),
      Line(TRUE, <<"F", "i", "l", "e", "N", "a", "m", "e">>, <<"Lrecl", "Records", "Explanations">>),
      Line(FALSE, <<"-", "-", "-">>, <<>>),
      Line(FALSE, <<"R", "e", "a", "d", "M", "e">>, <<"80", ".", "This", "file">>),
      Line(FALSE, <<"t", "a", "b", "l", "e", "f", "1", ".", "d", "a", "t">>, <<"110", "30", "Binned", "distance">>),
      Line(TRUE, <<"m", "o", "d", "u", "l", "u", "s">>, <<"fit">>),
      Line(FALSE, <<"t", "a", "b", "l", "e", "f", "3", ".", "d", "a", "t">>, <<"50", "740", "C11", "parameters">>),
      Line(FALSE, <<"-", "-", "-">>, <<>>),
      Line(FALSE, <<"S", "e", "e">>, <<"also">>)>>

Betoule14Tables ==
    {[name |-> <<"t", "a", "b", "l", "e", "f", "1", ".", "d", "a", "t">>, lines |-> <<>>],
     [name |-> <<"t", "a", "b", "l", "e", "f", "2", ".", "f", "i", "t">>, lines |-> <<>>],
     [name |-> <<"t", "a", "b", "l", "e", "f", "3", ".", "d", "a", "t">>, lines |-> <<>>],
     [name |-> <<"R", "e", "a", "d", "M", "e">>, lines |-> Betoule14ReadMe]}

\* --- DES SN3YR: the fit results the archive holds, two of them published
SN3YRFits ==
    {[name |-> "SALT2mu_DES+LOWZ_C11.FITRES"],
     [name |-> "SALT2mu_DES+LOWZ_G10.FITRES"],
     [name |-> "FITOPT000.FITRES"]}

\* The directories of a release and what each may hold.
Contents(files) ==
    {NoDir} \cup {Dir(fs) : fs \in {x \in SUBSET files : UniqueNames(x)}}

DiskStates(r) ==
    CASE r = "csp_dr1" ->
           {[spectra_dir |-> d] : d \in Contents(DR1Files)}
      [] r = "csp_dr3" ->
           {[data_dir |-> d, photometry_dir |-> p, table_dir |-> t] :
               d \in {NoDir, Dir({})}, p \in Contents(DR3Files),
               t \in Contents(DR3Tables)}
      [] r = "des_sn3yr" ->
           {[photometry_dir |-> p, list_file |-> l, fits_dir |-> t] :
               p \in Contents(SN3YRFiles), t \in Contents(SN3YRFits),
               l \in {[exists |-> FALSE, lines |-> <<>>]}
                       \cup {[exists |-> TRUE, lines |-> ls] : ls \in SN3YRLists}}
      [] r = "essence_narayan16" ->
           {[photometry_dir |-> p] : p \in Contents(Narayan16Files)}
      [] r = "jla_betoule14" ->
           {[photometry_dir |-> p, table_dir |-> t] :
               p \in Contents(Betoule14Files), t \in Contents(Betoule14Tables)}

\* A directory exists only inside an existing parent.
WellFormed(r, d) ==
    CASE r = "csp_dr3" ->
           (d.photometry_dir.exists \/ d.table_dir.exists) => d.data_dir.exists
      [] r = "des_sn3yr" -> d.list_file.exists => d.photometry_dir.exists
      [] OTHER -> TRUE

(***************************************************************************)
(* _get_available_ids of each release                                      *)
(***************************************************************************)
\* A slip that leaves out set(): one id per file.
DR1_get_available_ids_list ==
    IF require_data_path(<<"spectra_dir">>) # "none"
    THEN Raise("NoDownloadedData")
    ELSE LET files == AsList(glob("spectra_dir", <<"S", "N">>, <<".", "d", "a", "t">>))
             ids == [i \in DOMAIN files |->
                        <<"2", "0">> \o lstrip(split(files[i].name, "_")[1], {"S", "N"})]
         IN  Return(sorted(ids))

\* sndata/csp/_dr1.py
DR1_get_available_ids ==
    IF require_data_path(<<"spectra_dir">>) # "none"
    THEN Raise("NoDownloadedData")
    ELSE LET files == glob("spectra_dir", <<"S", "N">>, <<".", "d", "a", "t">>)
             ids == {<<"2", "0">> \o lstrip(split(f.name, "_")[1], {"S", "N"}) :
                        f \in files}
         IN  Return(sorted(AsList(ids)))

\* sndata/essence/_narayan16.py
Narayan16_get_available_ids ==
    IF require_data_path(<<"photometry_dir">>) # "none"
    THEN Raise("NoDownloadedData")
    ELSE LET files == AsList(glob("photometry_dir", <<>>, <<".", "d", "a", "t">>))
         IN  Return(sorted([i \in DOMAIN files |->
                               split(files[i].name, ".")[1]]))

\* sndata/des/_sn3yr.py: np.genfromtxt fails on a missing list file.
SN3YR_get_available_ids ==
    IF ~exists("list_file") THEN Raise("OSError")
    ELSE LET file_list == disk["list_file"].lines
         IN  Return(sorted([i \in DOMAIN file_list |->
                 rstrip(lstrip(file_list[i], {"d", "e", "s", "_"}),
                        {".", "d", "a", "t"})]))

\* SNData/csp/dr3/_data_parsing.py
dr3_check_for_data == IF ~exists("data_dir") THEN "RuntimeError" ELSE "none"

\* get_obj_ids, with files the list glob() returned.
dr3_get_obj_ids(files) ==
    IF dr3_check_for_data # "none" THEN Raise("RuntimeError")
    ELSE Return([i \in DOMAIN files |->
                lstrip(split(files[i].name, "_")[1], {"S", "N"})])

\* The decorator form of require_data_path that jla.betoule14 applies to
\* its functions: the path is tested on every call of the decorated function.
require_data_path_decorator(data_dir) ==
    IF ~exists(data_dir) THEN "NoDownloadedData" ELSE "none"

\* sndata/jla/betoule14/_data_parsing.py; str(f) ends with the file name.
Betoule14_get_available_ids ==
    IF require_data_path_decorator("photometry_dir") # "none"
    THEN Raise("NoDownloadedData")
    ELSE LET file_list == AsList(glob("photometry_dir", <<>>, <<".", "l", "i", "s", "t">>))
         IN  Return(sorted([i \in DOMAIN file_list |->
                 LET parts == split(file_list[i].name, "-")
                 IN  drop_last(parts[Len(parts)], 5)]))

\* DataRelease.get_available_ids: the public name of _get_available_ids.
get_available_ids ==
    CASE release = "csp_dr1" -> DR1_get_available_ids
      [] release = "des_sn3yr" -> SN3YR_get_available_ids
      [] release = "essence_narayan16" -> Narayan16_get_available_ids
      [] release = "jla_betoule14" -> Betoule14_get_available_ids

(***************************************************************************)
(* Reading one object                                                      *)
(***************************************************************************)
\* What a call did: its outcome and the files it opened.
Outcome(r, files) == [ret |-> r, opened |-> files]

\* The file of a directory with a given name; FileNotFoundError without one.
HasFile(path, name) == \E f \in disk[path].files : f.name = name

FileAt(path, name) == CHOOSE f \in disk[path].files : f.name = name

\* Table.rename_column
rename_column(table, old, new) ==
    Table([i \in DOMAIN table.colnames |->
              IF table.colnames[i] = old THEN new ELSE table.colnames[i]],
          [i \in DOMAIN table.rows |->
              [k \in ((DOMAIN table.rows[i]) \ {old}) \cup {new} |->
                  IF k = new THEN table.rows[i][old] ELSE table.rows[i][k]]],
          table.meta)

\* table[name] = values, a new column or new values for an old one
set_column(table, name, values) ==
    Table(IF name \in Range(table.colnames) THEN table.colnames
          ELSE Append(table.colnames, name),
          [i \in DOMAIN table.rows |-> Put(table.rows[i], name, values[i])],
          table.meta)

Column(table, name) == [i \in DOMAIN table.rows |-> table.rows[i][name]]

Max(a, b) == IF a >= b THEN a ELSE b

\* --- sndata/essence/_narayan16.py
\* A slip that builds the output from the first row only.
Narayan16_format_table_first(data_table) ==
    Table(<<"time", "band", "zp", "zpsys", "flux", "fluxerr">>,
          [i \in (DOMAIN data_table.rows) \cap {1} |->
              [time |-> data_table.rows[i]["JD"],
               band |-> <<"csp_dr3_", data_table.rows[i]["Passband"]>>,
               zp |-> 250,
               zpsys |-> "ab",
               flux |-> data_table.rows[i]["Flux"],
               fluxerr |-> Max(data_table.rows[i]["Fluxerr_hi"],
                               data_table.rows[i]["Fluxerr_lo"])]],
          data_table.meta)

\* _format_table; zero points are in tenths of a magnitude.
Narayan16_format_table(data_table) ==
    Table(<<"time", "band", "zp", "zpsys", "flux", "fluxerr">>,
          [i \in DOMAIN data_table.rows |->
              [time |-> data_table.rows[i]["JD"],
               band |-> <<"csp_dr3_", data_table.rows[i]["Passband"]>>,
               zp |-> 250,
               zpsys |-> "ab",
               flux |-> data_table.rows[i]["Flux"],
               fluxerr |-> Max(data_table.rows[i]["Fluxerr_hi"],
                               data_table.rows[i]["Fluxerr_lo"])]],
          data_table.meta)

\* Narayan16.band_names, each name as prefix and passband
Narayan16_band_names ==
    <<<<"essence_narayan16_", "R">>, <<"essence_narayan16_", "I">>>>

\* Narayan16.zero_point: 27.5 for every band, in tenths of a magnitude
Narayan16_zero_point == [i \in DOMAIN Narayan16_band_names |-> 275]

Narayan16_path(obj_id) == obj_id \o Narayan16Suffix

\* _get_data_for_id from the Table.read on.
Narayan16_read_data(obj_id, format_table) ==
    LET path == Narayan16_path(obj_id)
    IN
    IF ~HasFile("photometry_dir", path)
    THEN Outcome(Raise("FileNotFoundError"), {path})
    ELSE
    LET file == FileAt("photometry_dir", path)
        read == Table(<<"Observation", "MJD", "Passband", "Flux",
                        "Fluxerr_lo", "Fluxerr_hi">>,
                      file.rows, [k \in {"comments"} |-> "column names"])
        data == set_column(read, "JD",
                    [i \in DOMAIN read.rows |->
                        convert_to_jd(read.rows[i]["MJD"])])
        n    == IF Len(file.keys) <= Len(file.vals) THEN Len(file.keys)
                ELSE Len(file.vals)
        keys == {file.keys[i] : i \in 1 .. n}
        meta == [k \in (DOMAIN data.meta) \cup keys |->
                    IF k \in keys
                    THEN LET i == CHOOSE j \in 1 .. n :
                                      /\ file.keys[j] = k
                                      /\ \A l \in (j + 1) .. n : file.keys[l] # k
                         IN  file.vals[i]
                    ELSE data.meta[k]]
    IN
    IF "objid" \notin DOMAIN meta THEN Outcome(Raise("KeyError"), {path})
    ELSE
    LET meta2 == Del(Put(Del(meta, "objid"), "obj_id", meta["objid"]),
                     "comments")
        data_table == Table(data.colnames, data.rows, meta2)
    IN  Outcome(Return(IF format_table THEN Narayan16_format_table(data_table)
                       ELSE data_table),
                {path})

\* A slip that reads the file before it looks the id up.
Narayan16_get_data_for_id_unchecked(obj_id, format_table) ==
    IF get_available_ids.exc # "none" THEN Outcome(get_available_ids, {})
    ELSE Narayan16_read_data(obj_id, format_table)

Narayan16_get_data_for_id(obj_id, format_table) ==
    IF get_available_ids.exc # "none" THEN Outcome(get_available_ids, {})
    ELSE IF obj_id \notin Range(get_available_ids.val)
    THEN Outcome(Raise("InvalidObjId"), {})
    ELSE Narayan16_read_data(obj_id, format_table)

\* --- sndata/des/_sn3yr.py
SN3YRListName == <<"D", "E", "S", "-", "S", "N", "3", "Y", "R", "_", "D", "E", "S", ".", "L", "I", "S", "T">>

IsDigit(c) == c \in {"0", "1", "2", "3", "4", "5", "6", "7", "8", "9"}

\* int(str) for a string of digits
RECURSIVE int(_)
int(s) ==
    IF s = <<>> THEN 0
    ELSE 10 * int(SubSeq(s, 1, Len(s) - 1)) + (Ord(s[Len(s)]) - Ord("0"))

\* f'{n:08d}'
RECURSIVE digits(_)
digits(n) ==
    IF n < 10 THEN <<Alphabet[Ord("0") + n]>>
    ELSE Append(digits(n \div 10), Alphabet[Ord("0") + (n % 10)])

RECURSIVE zero_pad(_, _)
zero_pad(s, width) == IF Len(s) >= width THEN s ELSE zero_pad(<<"0">> \o s, width)

SN3YR_path(obj_id) == <<"d", "e", "s", "_">> \o zero_pad(digits(int(obj_id)), 8) \o <<".", "d", "a", "t">>

\* _format_sncosmo_table; zero points are in tenths of a magnitude.
SN3YR_format_sncosmo_table(data_table) ==
    Table(<<"time", "band", "flux", "fluxerr", "zp", "zpsys">>,
          [i \in DOMAIN data_table.rows |->
              [time |-> data_table.rows[i]["JD"],
               band |-> <<"des_sn3yr_", data_table.rows[i]["BAND"]>>,
               flux |-> data_table.rows[i]["FLUXCAL"],
               fluxerr |-> data_table.rows[i]["FLUXCALERR"],
               zp |-> 275,
               zpsys |-> "ab"]],
          data_table.meta)

\* _get_data_for_id from the Table.read on.
SN3YR_read_data(obj_id, format_table) ==
    IF \E i \in 1 .. Len(obj_id) : ~IsDigit(obj_id[i])
    THEN Outcome(Raise("ValueError"), {SN3YRListName})
    ELSE IF ~HasFile("photometry_dir", SN3YR_path(obj_id))
    THEN Outcome(Raise("FileNotFoundError"),
                 {SN3YRListName, SN3YR_path(obj_id)})
    ELSE
    LET file == FileAt("photometry_dir", SN3YR_path(obj_id))
        read == Table(<<"VARLIST", "MJD", "BAND", "FIELD", "FLUXCAL",
                        "FLUXCALERR", "ZPFLUX", "PSF", "SKYSIG", "GAIN",
                        "PHOTFLAG", "PHOTPROB">>,
                      file.rows, EmptyDict)
        data == set_column(read, "JD",
                    [i \in DOMAIN read.rows |->
                        convert_to_jd(read.rows[i]["MJD"])])
        meta == [obj_id |-> obj_id, ra |-> file.ra, dec |-> file.dec,
                 z |-> file.z, z_err |-> file.z_err, dtype |-> "photometric"]
        data_table == Table(data.colnames, data.rows, meta)
    IN  Outcome(Return(IF format_table
                       THEN SN3YR_format_sncosmo_table(data_table)
                       ELSE data_table),
                {SN3YRListName, SN3YR_path(obj_id)})

SN3YR_get_data_for_id(obj_id, format_table) ==
    IF get_available_ids.exc # "none" THEN Outcome(get_available_ids, {})
    ELSE IF obj_id \notin Range(get_available_ids.val)
    THEN Outcome(Raise("InvalidObjId"), {SN3YRListName})
    ELSE SN3YR_read_data(obj_id, format_table)

\* --- sndata/jla/betoule14/_data_parsing.py
Betoule14_path(obj_id) == <<"l", "c", "-">> \o obj_id \o <<".", "l", "i", "s", "t">>

\* get_data_for_id from the open() on.
Betoule14_read_data(obj_id, format_table) ==
    LET path == Betoule14_path(obj_id)
    IN
    IF ~HasFile("photometry_dir", path)
    THEN Outcome(Raise("FileNotFoundError"), {path})
    ELSE
    LET file == FileAt("photometry_dir", path)
        meta_data == [k \in {file.meta[i][1] : i \in DOMAIN file.meta} |->
                         LET i == CHOOSE j \in DOMAIN file.meta :
                                    /\ file.meta[j][1] = k
                                    /\ \A l \in DOMAIN file.meta :
                                           l > j => file.meta[l][1] # k
                         IN  file.meta[i][2]]
        read == Table(<<"Date", "Flux", "Fluxerr", "ZP", "Filter", "MagSys">>,
                      file.rows, EmptyDict)
        renamed ==
            rename_column(rename_column(rename_column(rename_column(
                rename_column(rename_column(read, "Date", "time"),
                    "Flux", "flux"), "Fluxerr", "fluxerr"), "Filter", "band"),
                    "ZP", "zp"), "MagSys", "zpsys")
        out_table ==
            IF format_table
            THEN set_column(renamed, "time",
                     [i \in DOMAIN renamed.rows |->
                         convert_to_jd(renamed.rows[i]["time"])])
            ELSE read
    IN
    IF "Z_HELIO" \notin DOMAIN meta_data
    THEN Outcome(Raise("KeyError"), {path})
    ELSE Outcome(Return(Table(out_table.colnames, out_table.rows,
                     [obj_id |-> obj_id, ra |-> "None", dec |-> "None",
                      z |-> meta_data["Z_HELIO"], z_err |-> "None",
                      comments |-> "z represents the heliocentric redshift"])),
                 {path})

Betoule14_get_data_for_id(obj_id, format_table) ==
    IF require_data_path_decorator("photometry_dir") # "none"
    THEN Outcome(Raise("NoDownloadedData"), {})
    ELSE IF obj_id \notin Range(get_available_ids.val)
    THEN Outcome(Raise("InvalidObjId"), {})
    ELSE Betoule14_read_data(obj_id, format_table)

\* --- sndata/csp/_dr1.py
\* Path.stem
stem(name) ==
    IF "." \notin Chars(name) THEN name
    ELSE LET i == CHOOSE k \in 1 .. Len(name) :
                      /\ name[k] = "."
                      /\ \A j \in (k + 1) .. Len(name) : name[j] # "."
         IN  SubSeq(name, 1, i - 1)

\* _read_file: the redshift and the rows of one spectrum.
DR1_read_file(file) ==
    LET parts == split(stem(file.name), "_")
    IN  IF Len(parts) # 5 THEN [exc |-> "ValueError"]
        ELSE [exc |-> "none",
              max_date |-> file.max_date,
              redshift |-> file.redshift,
              rows |-> [i \in DOMAIN file.rows |->
                  [wavelength |-> file.rows[i].wavelength,
                   flux |-> file.rows[i].flux,
                   date |-> convert_to_jd(file.obs_date),
                   epoch |-> file.epoch,
                   wavelength_range |-> parts[3],
                   telescope |-> parts[4],
                   instrument |-> parts[5]]]]

\* vstack of the tables read, in the order read
RECURSIVE DR1_vstack(_)
DR1_vstack(files) ==
    IF files = <<>> THEN <<>>
    ELSE DR1_read_file(Head(files)).rows \o DR1_vstack(Tail(files))

\* The files rglob(f'SN{obj_id[2:]}_*.dat') finds.
DR1_files_for(obj_id) ==
    glob("spectra_dir", <<"S", "N">> \o SubSeq(obj_id, 3, Len(obj_id)) \o <<"_">>, <<".", "d", "a", "t">>)

\* bool() of the generator rglob() returns: an object, true whatever it
\* will yield.
bool_generator(files) == TRUE

\* _get_data_for_id, with files the list rglob() yields.
DR1_get_data_for_id(obj_id, format_table, files) ==
    IF ~bool_generator(files) THEN Outcome(Raise("ValueError"), {})
    ELSE IF \E i \in DOMAIN files : DR1_read_file(files[i]).exc # "none"
    THEN Outcome(Raise("ValueError"), Names(Range(files)))
    ELSE IF files = <<>>
    THEN Outcome(Raise("UnboundLocalError"), {})
    ELSE
    LET out_table ==
            Table(<<"date", "wavelength", "flux", "epoch", "wavelength_range",
                    "telescope", "instrument">>,
                  DR1_vstack(files),
                  [obj_id |-> obj_id, ra |-> "None", dec |-> "None",
                   z |-> DR1_read_file(files[Len(files)]).redshift,
                   z_err |-> "None"])
    IN  Outcome(Return(IF format_table
                       THEN rename_column(out_table, "date", "time")
                       ELSE out_table),
                Names(Range(files)))

(***************************************************************************)
(* Published tables                                                        *)
(***************************************************************************)
\* --- sndata/des/_sn3yr.py
SN3YR_get_available_tables ==
    <<"SALT2mu_DES+LOWZ_C11.FITRES", "SALT2mu_DES+LOWZ_G10.FITRES">>

\* --- sndata/jla/betoule14/_data_parsing.py
Betoule14_get_available_tables ==
    IF require_data_path_decorator("table_dir") # "none"
    THEN Raise("NoDownloadedData")
    ELSE LET file_list == AsList(glob("table_dir", <<"t", "a", "b", "l", "e">>, <<".", "d", "a", "t">>))
                              \o AsList(glob("table_dir", <<"t", "a", "b", "l", "e">>, <<".", "f", "i", "t">>))
         IN  Return(sorted([i \in DOMAIN file_list |->
                 last_chars(rstrip(file_list[i].name, Chars(<<".", "d", "a", "t", "f", "i", "t">>)), 2)]))

\* DataRelease.get_available_tables: the public name of
\* _get_available_tables.
get_available_tables ==
    CASE release = "des_sn3yr" -> Return(SN3YR_get_available_tables)
      [] release = "jla_betoule14" -> Betoule14_get_available_tables

\* The columns of a FITRES table, dummy_col excluded.
SN3YRFitresColumns ==
    <<"CID", "CIDint", "IDSURVEY", "TYPE", "FIELD", "CUTFLAG_SNANA", "zHEL",
      "zHELERR", "zCMB", "zCMBERR", "zHD", "zHDERR", "VPEC", "VPECERR",
      "HOST_LOGMASS", "HOST_LOGMASS_ERR", "SNRMAX1", "SNRMAX2", "SNRMAX3",
      "PKMJD", "PKMJDERR", "x1", "x1ERR", "c", "cERR", "mB", "mBERR", "x0",
      "x0ERR", "COV_x1_c", "COV_x1_x0", "COV_c_x0", "NDOF", "FITCHI2",
      "FITPROB", "RA", "DECL", "TGAPMAX", "TrestMIN", "TrestMAX", "MWEBV",
      "m0obs_i", "m0obs_r", "em0obs_i", "em0obs_r", "MU", "MUMODEL", "MUERR",
      "MUERR_RAW", "MURES", "MUPULL", "M0DIF", "ERRCODE", "biasCor_mu",
      "biasCorErr_mu", "biasCor_mB", "biasCor_x1", "biasCor_c",
      "biasScale_muCOV", "IDSAMPLE">>

\* A slip that reads the file before it looks the table id up.
SN3YR_load_table_unchecked(table_id) ==
    IF ~HasFile("fits_dir", table_id)
    THEN Outcome(Raise("FileNotFoundError"), {table_id})
    ELSE Outcome(Return(Table(SN3YRFitresColumns, <<>>,
                              [table_id |-> table_id])),
                 {table_id})

\* _load_table; the rows of the table are left out.
SN3YR_load_table(table_id) ==
    IF table_id \notin Range(get_available_tables.val)
    THEN Outcome(Raise("ValueError"), {})
    ELSE IF ~HasFile("fits_dir", table_id)
    THEN Outcome(Raise("FileNotFoundError"), {table_id})
    ELSE Outcome(Return(Table(SN3YRFitresColumns, <<>>,
                              [table_id |-> table_id])),
                 {table_id})

\* --- sndata/_utils.py: read_vizier_table_descriptions
\* A table number: an int when the text is all digits.
TableNum(text) ==
    IF text # <<>> /\ \A i \in 1 .. Len(text) : IsDigit(text[i])
    THEN [isint |-> TRUE, text |-> digits(int(text))]
    ELSE [isint |-> FALSE, text |-> text]

\* The index of the first line from i on that is not a continuation;
\* past the end when the file ends first.
RECURSIVE vizier_row_end(_, _)
vizier_row_end(lines, i) ==
    IF i > Len(lines) THEN i
    ELSE IF lines[i].indent THEN vizier_row_end(lines, i + 1)
    ELSE i

\* line.strip() as the pieces a description is joined from
Stripped(line) ==
    IF line.first = <<>> THEN <<"">> ELSE <<line.first>> \o line.rest

RECURSIVE vizier_continuation(_, _, _)
vizier_continuation(lines, i, j) ==
    IF i >= j THEN <<>>
    ELSE Stripped(lines[i]) \o vizier_continuation(lines, i + 1, j)

\* The loop over the rows of the summary, from line i on.
RECURSIVE vizier_rows(_, _, _)
vizier_rows(lines, i, table_descriptions) ==
    IF i > Len(lines) THEN Raise("StopIteration")
    ELSE IF ~lines[i].indent /\ startswith(lines[i].first, <<"-", "-", "-">>)
    THEN Return(table_descriptions)
    ELSE IF lines[i].first = <<>> THEN Raise("IndexError")
    ELSE
    LET table_num == TableNum(rstrip(lstrip(lines[i].first, Chars(<<"t", "a", "b", "l", "e">>)),
                                     Chars(<<".", "d", "a", "t">>)))
        j == vizier_row_end(lines, i + 1)
        table_desc == SubSeq(lines[i].rest, 3, Len(lines[i].rest))
                          \o vizier_continuation(lines, i + 1, j)
    IN  IF j > Len(lines) THEN Raise("StopIteration")
        ELSE vizier_rows(lines, j, Put(table_descriptions, table_num,
                                       table_desc))

read_vizier_table_descriptions(lines) ==
    IF \A i \in DOMAIN lines :
           ~(lines[i].first = <<"F", "i", "l", "e">> /\ lines[i].rest = <<"Summary:">>)
    THEN Raise("StopIteration")
    ELSE LET start == CHOOSE i \in DOMAIN lines :
                          /\ lines[i].first = <<"F", "i", "l", "e">>
                          /\ lines[i].rest = <<"Summary:">>
                          /\ \A k \in 1 .. (i - 1) :
                                 ~(lines[k].first = <<"F", "i", "l", "e">>
                                   /\ lines[k].rest = <<"Summary:">>)
         IN  vizier_rows(lines, start + 5, EmptyDict)

\* --- sndata/jla/betoule14/_data_parsing.py
\* load_table below its decorators.
Betoule14_load_table_body(table_id) ==
    IF table_id \notin Range(get_available_tables.val)
    THEN Outcome(Raise("ValueError"), {})
    ELSE IF table_id = <<"f", "2">>
    THEN IF ~HasFile("table_dir", <<"t", "a", "b", "l", "e", "f", "2", ".", "f", "i", "t">>)
         THEN Outcome(Raise("FileNotFoundError"), {<<"t", "a", "b", "l", "e", "f", "2", ".", "f", "i", "t">>})
         ELSE Outcome(Return(Table(<<>>, <<>>,
                  [description |->
                      <<"Covariance", "matrix", "of", "the", "binned",
                        "distance", "modulus">>])),
                  {<<"t", "a", "b", "l", "e", "f", "2", ".", "f", "i", "t">>})
    ELSE
    LET table_path == <<"t", "a", "b", "l", "e">> \o table_id \o <<".", "d", "a", "t">>
    IN
    IF ~HasFile("table_dir", table_path) \/ ~HasFile("table_dir", <<"R", "e", "a", "d", "M", "e">>)
    THEN Outcome(Raise("FileNotFoundError"),
                 {table_path, <<"R", "e", "a", "d", "M", "e">>} \cap Names(disk["table_dir"].files))
    ELSE
    LET description_dict ==
            read_vizier_table_descriptions(FileAt("table_dir", <<"R", "e", "a", "d", "M", "e">>).lines)
    IN
    IF description_dict.exc # "none"
    THEN Outcome(description_dict, {table_path, <<"R", "e", "a", "d", "M", "e">>})
    ELSE IF TableNum(table_id).isint
            \/ [isint |-> FALSE, text |-> table_id]
                   \notin DOMAIN description_dict.val
    THEN Outcome(Raise("KeyError"), {table_path, <<"R", "e", "a", "d", "M", "e">>})
    ELSE Outcome(Return(Table(<<>>, <<>>,
             [description |->
                 description_dict.val[[isint |-> FALSE, text |-> table_id]]])),
             {table_path, <<"R", "e", "a", "d", "M", "e">>})

\* load_table under require_data_path, on a miss of the cache.
Betoule14_load_table_checked(table_id) ==
    IF require_data_path_decorator("table_dir") # "none"
    THEN Outcome(Raise("NoDownloadedData"), {})
    ELSE Betoule14_load_table_body(table_id)

\* load_table under lru_copy_cache: a value held for table_id is copied and
\* returned; otherwise the function runs, and what it returns is held.
Betoule14_load_table(table_id) ==
    IF table_id \in DOMAIN cache THEN Outcome(Return(cache[table_id]), {})
    ELSE Betoule14_load_table_checked(table_id)

\* --- SNData/csp/dr3/_data_parsing.py
\* table_path.exists, the bound method itself: an object, which is true.
exists_method(path, name) == TRUE

dr3_table_path(table_num) == <<"t", "a", "b", "l", "e">> \o table_num \o <<".", "d", "a", "t">>

\* load_table; ascii.read opens the table and the ReadMe it is given.
dr3_load_table(table_num) ==
    LET table_path == dr3_table_path(table_num)
    IN
    IF dr3_check_for_data # "none" THEN Outcome(Raise("RuntimeError"), {})
    ELSE IF ~exists_method("table_dir", table_path)
    THEN Outcome(Raise("ValueError"), {})
    ELSE IF ~HasFile("table_dir", table_path) \/ ~HasFile("table_dir", <<"R", "e", "a", "d", "M", "e">>)
    THEN Outcome(Raise("FileNotFoundError"),
                 {table_path, <<"R", "e", "a", "d", "M", "e">>} \cap Names(disk["table_dir"].files))
    ELSE Outcome(Return(Table(<<>>, <<>>, [table_num |-> table_num])),
                 {table_path, <<"R", "e", "a", "d", "M", "e">>})

(***************************************************************************)
(* The calls                                                               *)
(***************************************************************************)
\* The arguments the calls are made with.
ObjIds ==
    CASE release = "csp_dr1" -> {<<"2", "0", "0", "4", "e", "f">>, <<"2", "0", "0", "5", "k", "e">>, <<"2", "0", "0", "9", "z", "z">>}
      [] release = "des_sn3yr" ->
           {<<"0", "1", "2", "4", "8", "6", "7", "7">>, <<"0", "1", "2", "5", "0", "0", "1", "7">>, <<"0", "1", "2", "6", "1", "5", "7", "9">>, <<"1", "2", "4", "8", "6", "7", "7">>, <<"d", "e", "s", "_", "x">>}
      [] release = "essence_narayan16" -> {<<"b", "0", "1", "0">>, <<"d", "0", "3", "3">>, <<"z", "9", "9", "9">>}
      [] release = "jla_betoule14" -> {<<"0", "3", "D", "1", "a", "u">>, <<"s", "n", "1", "9", "9", "0", "O">>, <<"s", "n", "2", "0", "2", "0", "z", "z">>}
      [] OTHER -> {}

TableIds ==
    CASE release = "des_sn3yr" ->
           Range(SN3YR_get_available_tables) \cup {"table1", "FITOPT000.FITRES"}
      [] release = "jla_betoule14" -> {<<"f", "1">>, <<"f", "2">>, <<"f", "3">>, <<"f", "9">>, <<"1">>}
      [] release = "csp_dr3" -> {<<"1">>, <<"2">>}
      [] OTHER -> {}

Init ==
    /\ release \in Releases
    /\ disk \in {d \in DiskStates(release) : WellFormed(release, d)}
    /\ cache = EmptyDict
    /\ call = NoCall
    /\ ret = Return(NoVal)
    /\ opened = {}
    /\ WorldIdle

\* require_data_path(*data_dirs)
RequireDataPath ==
    \E data_dirs \in
           {<<>>} \cup {<<a>> : a \in DOMAIN disk}
               \cup {<<a, b>> : a, b \in DOMAIN disk} :
        /\ call' = [op |-> "require_data_path", data_dirs |-> data_dirs]
        /\ ret' = IF require_data_path(data_dirs) = "none" THEN Return("None")
                  ELSE Raise(require_data_path(data_dirs))
        /\ opened' = {}
        /\ UNCHANGED <<release, disk, cache, world>>

\* get_available_ids()
GetAvailableIds ==
    /\ release \in {"csp_dr1", "des_sn3yr", "essence_narayan16",
                    "jla_betoule14"}
    /\ call' = [op |-> "get_available_ids"]
    /\ ret' = get_available_ids
    /\ opened' = IF release = "des_sn3yr" /\ get_available_ids.exc = "none"
                 THEN {SN3YRListName} ELSE {}
    /\ UNCHANGED <<release, disk, cache, world>>

\* csp.dr3.get_obj_ids()
DR3GetObjIds ==
    /\ release = "csp_dr3"
    /\ \E files \in Enumerations(glob("photometry_dir", <<>>, <<".", "t", "x", "t">>)) :
        /\ call' = [op |-> "get_obj_ids", files |-> files]
        /\ ret' = dr3_get_obj_ids(files)
    /\ opened' = {}
    /\ UNCHANGED <<release, disk, cache, world>>

\* DR1().get_data_for_id(obj_id, format_table)
DR1GetDataForId ==
    /\ release = "csp_dr1"
    /\ \E obj_id \in ObjIds, format_table \in BOOLEAN :
       \E files \in Enumerations(DR1_files_for(obj_id)) :
        LET out == DR1_get_data_for_id(obj_id, format_table, files)
        IN  /\ call' = [op |-> "get_data_for_id", obj_id |-> obj_id,
                        format_table |-> format_table]
            /\ ret' = out.ret
            /\ opened' = out.opened
    /\ UNCHANGED <<release, disk, cache, world>>

\* SN3YR().get_data_for_id(obj_id, format_table)
SN3YRGetDataForId ==
    /\ release = "des_sn3yr"
    /\ \E obj_id \in ObjIds, format_table \in BOOLEAN :
        LET out == SN3YR_get_data_for_id(obj_id, format_table)
        IN  /\ call' = [op |-> "get_data_for_id", obj_id |-> obj_id,
                        format_table |-> format_table]
            /\ ret' = out.ret
            /\ opened' = out.opened
    /\ UNCHANGED <<release, disk, cache, world>>

\* Narayan16().get_data_for_id(obj_id, format_table)
Narayan16GetDataForId ==
    /\ release = "essence_narayan16"
    /\ \E obj_id \in ObjIds, format_table \in BOOLEAN :
        LET out == Narayan16_get_data_for_id(obj_id, format_table)
        IN  /\ call' = [op |-> "get_data_for_id", obj_id |-> obj_id,
                        format_table |-> format_table]
            /\ ret' = out.ret
            /\ opened' = out.opened
    /\ UNCHANGED <<release, disk, cache, world>>

\* jla.betoule14.get_data_for_id(obj_id, format_table)
Betoule14GetDataForId ==
    /\ release = "jla_betoule14"
    /\ \E obj_id \in ObjIds, format_table \in BOOLEAN :
        LET out == Betoule14_get_data_for_id(obj_id, format_table)
        IN  /\ call' = [op |-> "get_data_for_id", obj_id |-> obj_id,
                        format_table |-> format_table]
            /\ ret' = out.ret
            /\ opened' = out.opened
    /\ UNCHANGED <<release, disk, cache, world>>

\* get_available_tables()
GetAvailableTables ==
    /\ release \in {"des_sn3yr", "jla_betoule14"}
    /\ call' = [op |-> "get_available_tables"]
    /\ ret' = get_available_tables
    /\ opened' = {}
    /\ UNCHANGED <<release, disk, cache, world>>

\* SN3YR().load_table(table_id)
SN3YRLoadTable ==
    /\ release = "des_sn3yr"
    /\ \E table_id \in TableIds :
        LET out == SN3YR_load_table(table_id)
        IN  /\ call' = [op |-> "load_table", table_id |-> table_id,
                        cached |-> FALSE]
            /\ ret' = out.ret
            /\ opened' = out.opened
    /\ UNCHANGED <<release, disk, cache, world>>

\* jla.betoule14.load_table(table_id)
Betoule14LoadTable ==
    /\ release = "jla_betoule14"
    /\ \E table_id \in TableIds :
        LET out == Betoule14_load_table(table_id)
        IN  /\ call' = [op |-> "load_table", table_id |-> table_id,
                        cached |-> table_id \in DOMAIN cache]
            /\ ret' = out.ret
            /\ opened' = out.opened
            /\ cache' = IF out.ret.exc = "none"
                        THEN Put(cache, table_id, out.ret.val)
                        ELSE cache
    /\ UNCHANGED <<release, disk, world>>

\* csp.dr3.load_table(table_num)
DR3LoadTable ==
    /\ release = "csp_dr3"
    /\ \E table_num \in TableIds :
        LET out == dr3_load_table(table_num)
        IN  /\ call' = [op |-> "dr3_load_table", table_num |-> table_num]
            /\ ret' = out.ret
            /\ opened' = out.opened
    /\ UNCHANGED <<release, disk, cache, world>>

Next ==
    \/ RequireDataPath
    \/ GetAvailableIds
    \/ DR3GetObjIds
    \/ DR1GetDataForId
    \/ SN3YRGetDataForId
    \/ Narayan16GetDataForId
    \/ Betoule14GetDataForId
    \/ GetAvailableTables
    \/ SN3YRLoadTable
    \/ Betoule14LoadTable
    \/ DR3LoadTable

Spec == Init /\ [][Next]_vars

(***************************************************************************)
(* jla.betoule14.load_table while the downloaded data come and go          *)
(***************************************************************************)
InitReload ==
    /\ release = "jla_betoule14"
    /\ disk \in {d \in DiskStates(release) : WellFormed(release, d)}
    /\ cache = EmptyDict
    /\ call = NoCall
    /\ ret = Return(NoVal)
    /\ opened = {}
    /\ WorldIdle

\* The downloaded data of the release are deleted: shutil.rmtree on the
\* data directory, which holds the table and the photometry directory.
DeleteData ==
    /\ \E path \in DOMAIN disk : disk[path].exists
    /\ disk' = [path \in DOMAIN disk |-> NoDir]
    /\ call' = [op |-> "delete_module_data"]
    /\ ret' = Return(NoVal)
    /\ opened' = {}
    /\ UNCHANGED <<release, cache, world>>

NextReload == Betoule14LoadTable \/ DeleteData

SpecReload == InitReload /\ [][NextReload]_vars

(***************************************************************************)
(* sndata/_utils.py: read_vizier_table_descriptions on a ReadMe            *)
(*                                                                         *)
(* A ReadMe is made of a title, the File Summary with its header, the row  *)
(* of the ReadMe itself, the rows of the tables, the closing line, and     *)
(* the text that follows.                                                  *)
(***************************************************************************)
\* The table files a File Summary lists, each with its explanation.
SummaryFiles ==
    {[name |-> <<"t", "a", "b", "l", "e", "f", "1", ".", "d", "a", "t">>, text |-> <<"Binned", "distance">>],
     [name |-> <<"t", "a", "b", "l", "e", "1", ".", "d", "a", "t">>, text |-> <<"Light", "curves">>],
     [name |-> <<"t", "a", "b", "l", "e", "a", "1", ".", "d", "a", "t">>, text |-> <<"Appendix">>],
     [name |-> <<"t", "a", "b", "l", "e", "2", ".", "d", "a", "t">>, text |-> <<"Spectra">>]}

\* The continuation lines a row may have.
Continuations == {<<>>, <<Line(TRUE, <<"m", "o", "d", "u", "l", "u", "s">>, <<"fit">>)>>}

SummaryRows ==
    {[name |-> f.name, text |-> f.text, more |-> c] :
        f \in SummaryFiles, c \in Continuations}

\* The rows of a summary: up to MaxRows of them, no file twice.
RECURSIVE RowLists(_)
RowLists(n) ==
    IF n = 0 THEN {<<>>}
    ELSE RowLists(n - 1) \cup
         {Append(rows, r) : rows \in {x \in RowLists(n - 1) : Len(x) = n - 1},
                            r \in SummaryRows}

DistinctFiles(rows) ==
    \A i, j \in DOMAIN rows : rows[i].name = rows[j].name => i = j

RECURSIVE RowLines(_)
RowLines(rows) ==
    IF rows = <<>> THEN <<>>
    ELSE <<Line(FALSE, Head(rows).name,
                <<"80", "30">> \o Head(rows).text)>>
             \o Head(rows).more \o RowLines(Tail(rows))

ReadMeOf(rows) ==
    <<Line(FALSE, <<"J", "/", "A", "+", "A", "/", "5", "6", "8", "/", "A", "2", "2">>, <<"Joint", "analysis">>),
      Line(FALSE, <<"F", "i", "l", "e">>, <<"Summary:">>),
      Line(FALSE, <<"-", "-", "-">>, <<>>),
      Line(TRUE, <<"F", "i", "l", "e", "N", "a", "m", "e">>, <<"Lrecl", "Records", "Explanations">>),
      Line(FALSE, <<"-", "-", "-">>, <<>>),
      Line(FALSE, <<"R", "e", "a", "d", "M", "e">>, <<"80", ".", "This", "file">>)>>
    \o RowLines(rows)
    \o <<Line(FALSE, <<"-", "-", "-">>, <<>>),
         Line(FALSE, <<"t", "a", "b", "l", "e", "z", "9", ".", "d", "a", "t">>, <<"80", "1", "After", "the", "summary">>)>>

InitVizier ==
    /\ release = "none"
    /\ disk = EmptyDict
    /\ cache = EmptyDict
    /\ call = NoCall
    /\ ret = Return(NoVal)
    /\ opened = {}
    /\ WorldIdle

\* read_vizier_table_descriptions(readme_path)
ReadVizierTableDescriptions ==
    /\ \E rows \in {x \in RowLists(MaxRows) : DistinctFiles(x)} :
        /\ call' = [op |-> "read_vizier_table_descriptions", rows |-> rows]
        /\ ret' = read_vizier_table_descriptions(ReadMeOf(rows))
    /\ UNCHANGED <<release, disk, cache, opened, world>>

NextVizier == ReadVizierTableDescriptions

SpecVizier == InitVizier /\ [][NextVizier]_vars

(***************************************************************************)
(* Claims about convert_to_jd                                              *)
(***************************************************************************)
IsConvert == call.op = "convert_to_jd"

\* C1: the Snoopy, MJD and JD forms of one date s, 0 <= s < 53000, all
\* convert to the same JD, s + 2453000.5.
C1_SameJD ==
    (IsConvert /\ call.fmt \in DateFormats)
        => ret.val = call.snoopy_date + snoopy_offset + mjd_offset

C1_Witness ==
    /\ IsConvert
    /\ call.fmt = "mjd"
    /\ call.snoopy_date = 0
    /\ ret.val = snoopy_offset + mjd_offset

\* C2 as stated: every d with 0 <= d < 2400000.5 converts to d + 2400000.5.
C2_AnyMJD ==
    (IsConvert /\ call.date >= 0 /\ call.date < mjd_offset)
        => ret.val = call.date + mjd_offset

\* C2, amended: every d with 53000 <= d < 2400000.5 converts to
\* d + 2400000.5 (a smaller value is read as a Snoopy date).
C2_MJDFrom53000 ==
    (IsConvert /\ call.date >= snoopy_offset /\ call.date < mjd_offset)
        => ret.val = call.date + mjd_offset

C2_Witness ==
    /\ IsConvert
    /\ call.fmt = "raw"
    /\ call.date = snoopy_offset
    /\ ret.val = snoopy_offset + mjd_offset

\* C3: for d >= 0 the result is at least 2400000.5, converting a result
\* again returns it unchanged, and a d >= 2400000.5 is returned unchanged.
C3_Idempotent ==
    IsConvert =>
        /\ call.date >= 0 => ret.val >= mjd_offset
        /\ call.fmt = "result" => ret.val = call.date
        /\ call.date >= mjd_offset => ret.val = call.date

C3_Witness ==
    /\ IsConvert
    /\ call.fmt = "result"
    /\ call.date = DateWindow + snoopy_offset + mjd_offset
    /\ ret.val = call.date

(***************************************************************************)
(* Claims about reading the local data                                     *)
(***************************************************************************)
IsGetData == call.op = "get_data_for_id"

Returned == ret.exc = "none"

SncosmoColumns == {"time", "band", "flux", "fluxerr", "zp", "zpsys"}

\* The file get_data_for_id reads for the object asked for, and the column
\* of it that holds the flux.
SourcePath ==
    CASE release = "des_sn3yr" -> SN3YR_path(call.obj_id)
      [] release = "essence_narayan16" -> Narayan16_path(call.obj_id)
      [] release = "jla_betoule14" -> Betoule14_path(call.obj_id)

SourceRows == FileAt("photometry_dir", SourcePath).rows

SourceFlux == IF release = "des_sn3yr" THEN "FLUXCAL" ELSE "Flux"

Photometric == {"des_sn3yr", "essence_narayan16", "jla_betoule14"}

MetaKeys == {"obj_id", "ra", "dec", "z", "z_err"}

\* C5: every table get_data_for_id of DR1, SN3YR and Narayan16 returns has
\* the meta keys obj_id, ra, dec, z and z_err, and its obj_id is the one
\* asked for.
C5_StandardMeta ==
    (IsGetData /\ release \in {"csp_dr1", "des_sn3yr", "essence_narayan16"}
        /\ Returned)
        => /\ MetaKeys \subseteq DOMAIN ret.val.meta
           /\ ret.val.meta["obj_id"] = call.obj_id

IsGetIds == call.op = "get_available_ids"

\* The object a CSP DR1 spectrum belongs to: SN<object>_...
DR1ObjectOf(name) ==
    SubSeq(name, 3,
           (CHOOSE k \in 1 .. Len(name) :
                name[k] = "_" /\ \A j \in 1 .. (k - 1) : name[j] # "_") - 1)

\* C6: the list DR1._get_available_ids returns is strictly increasing, and
\* holds '20<object>' once for each object that has spectra, however many.
C6_SortedUnique ==
    (IsGetIds /\ release = "csp_dr1" /\ Returned)
        => /\ \A i, j \in DOMAIN ret.val :
                 i < j => StrLess(ret.val[i], ret.val[j])
           /\ \A f \in glob("spectra_dir", <<"S", "N">>, <<".", "d", "a", "t">>) :
                 Cardinality({i \in DOMAIN ret.val :
                     ret.val[i] = <<"2", "0">> \o DR1ObjectOf(f.name)}) = 1
           /\ Len(ret.val) =
                 Cardinality({DR1ObjectOf(f.name) :
                     f \in glob("spectra_dir", <<"S", "N">>,
                                <<".", "d", "a", "t">>)})

C6_Witness ==
    /\ IsGetIds
    /\ release = "csp_dr1"
    /\ Cardinality(glob("spectra_dir", <<"S", "N">>, <<".", "d", "a", "t">>)) = 3
    /\ ret = Return(<<<<"2", "0", "0", "4", "e", "f">>, <<"2", "0", "0", "5", "k", "e">>>>)

\* C7: the list csp.dr3 get_obj_ids returns is sorted, whatever the order
\* in which the files are enumerated.
C7_Sorted ==
    (call.op = "get_obj_ids" /\ Returned)
        => \A i, j \in DOMAIN ret.val :
               i < j => StrLeq(ret.val[i], ret.val[j])

\* C8: require_data_path raises NoDownloadedData exactly when one of its
\* paths does not exist and returns None otherwise; _get_available_ids of
\* DR1 and of Narayan16 raise it when their directory does not exist.
C8_NoDownloadedData ==
    /\ call.op = "require_data_path"
        => /\ ret.exc = "NoDownloadedData"
                <=> \E i \in DOMAIN call.data_dirs : ~exists(call.data_dirs[i])
           /\ ret.exc # "NoDownloadedData" => ret = Return("None")
    /\ (IsGetIds /\ release = "csp_dr1" /\ ~exists("spectra_dir"))
        => ret = Raise("NoDownloadedData")
    /\ (IsGetIds /\ release = "essence_narayan16"
            /\ ~exists("photometry_dir"))
        => ret = Raise("NoDownloadedData")

C8_Witness ==
    /\ call.op = "require_data_path"
    /\ Len(call.data_dirs) = 2
    /\ exists(call.data_dirs[1])
    /\ ~exists(call.data_dirs[2])
    /\ ret = Raise("NoDownloadedData")

\* C9: with the data downloaded, get_data_for_id of SN3YR, Narayan16 and
\* Betoule14 raises InvalidObjId for an obj_id get_available_ids does not
\* list, having opened no file of an object; without its photometry
\* directory Narayan16 raises NoDownloadedData for every obj_id.
C9_InvalidObjId ==
    (IsGetData /\ release \in Photometric)
        => /\ (get_available_ids.exc = "none"
                  /\ call.obj_id \notin Range(get_available_ids.val))
               => /\ ret = Raise("InvalidObjId")
                  /\ opened \subseteq {SN3YRListName}
           /\ (release = "essence_narayan16" /\ ~exists("photometry_dir"))
               => ret = Raise("NoDownloadedData")

C9_Witness ==
    /\ IsGetData
    /\ release = "essence_narayan16"
    /\ call.obj_id = <<"z", "9", "9", "9">>
    /\ get_available_ids = Return(<<<<"b", "0", "1", "0">>, <<"d", "0", "3", "3">>>>)
    /\ ret = Raise("InvalidObjId")
    /\ opened = {}

C11_TableNotAvailable ==
    (call.op = "dr3_load_table" /\ exists("data_dir")
        /\ ~HasFile("table_dir", dr3_table_path(call.table_num)))
        => /\ ret = Raise("ValueError")
           /\ opened = {}

\* C12: DR1._get_data_for_id raises ValueError, and nothing else, when the
\* spectra directory holds no file SN<obj_id[2:]>_*.dat.
C12_NoDataFound ==
    (IsGetData /\ release = "csp_dr1" /\ DR1_files_for(call.obj_id) = {})
        => ret = Raise("ValueError")

(***************************************************************************)
(* sndata/_utils.py: lru_copy_cache                                        *)
(*                                                                         *)
(* Objects have identity: heap maps an object to its present value, the    *)
(* cache holds for each argument the object the function returned, and     *)
(* callers hold the objects they were handed and may alter them in place.  *)
(***************************************************************************)
\* The arguments the cached function is called with; it raises for 0.
CacheArgs == 0 .. 3

\* The function under the decorator: it returns a new list each time.
cached_f(a) == IF a = 0 THEN Raise("ValueError") ELSE Return(<<a, a>>)

\* Objects in use, and one that is not.
Objects == 1 .. (MaxSize + MaxHeld + 2)

InUse(c, r) ==
    {c[a].obj : a \in DOMAIN c} \cup {r.held[i].obj : i \in DOMAIN r.held}

NewObject(c, r) ==
    CHOOSE o \in Objects \ InUse(c, r) :
        \A p \in Objects \ InUse(c, r) : o <= p

\* The heap without the objects nothing refers to any more.
Collect(c, r) ==
    [heap |-> [o \in (DOMAIN r.heap) \cap InUse(c, r) |-> r.heap[o]],
     held |-> r.held]

\* functools.lru_cache(maxsize)(f), on a hit: the entry becomes the most
\* recently used.
lru_hit(c, a) ==
    [b \in DOMAIN c |->
        [obj |-> c[b].obj,
         rank |-> IF b = a THEN 1
                  ELSE IF c[b].rank < c[a].rank THEN c[b].rank + 1
                  ELSE c[b].rank]]

\* ... and on a miss: the result is held as the most recently used entry,
\* and the least recently used one goes when the cache is full.
lru_miss(c, a, obj) ==
    LET kept == {b \in DOMAIN c :
                    Cardinality(DOMAIN c) < MaxSize \/ c[b].rank < MaxSize}
    IN  [b \in kept \cup {a} |->
            IF b = a THEN [obj |-> obj, rank |-> 1]
            ELSE [obj |-> c[b].obj, rank |-> c[b].rank + 1]]

\* cached_func(*args): the new cache, the heap, and the object returned
\* (or the exception).
cached_func(c, r, a) ==
    IF a \in DOMAIN c
    THEN [exc |-> "none", cache |-> lru_hit(c, a), heap |-> r.heap,
          obj |-> c[a].obj]
    ELSE IF cached_f(a).exc # "none"
    THEN [exc |-> cached_f(a).exc, cache |-> c, heap |-> r.heap, obj |-> 0]
    ELSE LET o == NewObject(c, r)
         IN  [exc |-> "none", cache |-> lru_miss(c, a, o),
              heap |-> [p \in (DOMAIN r.heap) \cup {o} |->
                           IF p = o THEN cached_f(a).val ELSE r.heap[p]],
              obj |-> o]

\* A slip that hands out the cached object itself (the copy=False path).
wrapper_nocopy(c, r, a) ==
    LET res == cached_func(c, r, a)
    IN  IF res.exc # "none"
        THEN [ret |-> Raise(res.exc), cache |-> c, refs |-> r]
        ELSE [ret |-> Return(res.heap[res.obj]),
              cache |-> res.cache,
              refs |-> Collect(res.cache,
                          [heap |-> res.heap,
                           held |-> Append(r.held,
                                        [args |-> a, obj |-> res.obj])])]

\* wrapper(*args) of lru_copy_cache: deepcopy(cached_func(*args)).
wrapper(c, r, a) ==
    LET res == cached_func(c, r, a)
    IN  IF res.exc # "none"
        THEN [ret |-> Raise(res.exc), cache |-> c, refs |-> r]
        ELSE LET r1 == [heap |-> res.heap, held |-> r.held]
                 copy == NewObject(res.cache, r1)
             IN  [ret |-> Return(res.heap[res.obj]),
                  cache |-> res.cache,
                  refs |-> Collect(res.cache,
                              [heap |-> [p \in (DOMAIN res.heap) \cup {copy} |->
                                            IF p = copy THEN res.heap[res.obj]
                                            ELSE res.heap[p]],
                               held |-> Append(r.held,
                                            [args |-> a, obj |-> copy])])]

\* What a caller can turn a list into, in place.
Mutations(v) ==
    (IF v # <<>> THEN {Tail(v)} ELSE {})
        \cup (IF Len(v) < 3 THEN {Append(v, 0)} ELSE {})

CacheIdle ==
    /\ release = "none"
    /\ disk = <<>>
    /\ opened = {}
    /\ requests = <<>>
    /\ warnings = <<>>
    /\ registry = [loaders |-> {}, instances |-> EmptyDict]
    /\ environ = EmptyDict

InitCache ==
    /\ CacheIdle
    /\ cache = EmptyDict
    /\ refs = [heap |-> EmptyDict, held |-> <<>>]
    /\ call = NoCall
    /\ ret = Return(NoVal)

CacheFrame ==
    UNCHANGED <<release, disk, opened, requests, warnings, registry, environ>>

\* A call of the decorated function.
CachedCall ==
    /\ Len(refs.held) < MaxHeld
    /\ \E a \in CacheArgs :
        LET out == wrapper(cache, refs, a)
        IN  /\ call' = [op |-> "cached_call", args |-> a,
                        hit |-> a \in DOMAIN cache]
            /\ ret' = out.ret
            /\ cache' = out.cache
            /\ refs' = out.refs
    /\ CacheFrame

\* A caller alters, in place, a value it was handed.
MutateReturned ==
    /\ \E i \in DOMAIN refs.held :
        \E v \in Mutations(refs.heap[refs.held[i].obj]) :
            refs' = [refs EXCEPT !.heap[refs.held[i].obj] = v]
    /\ call' = [op |-> "mutate"]
    /\ ret' = Return(NoVal)
    /\ UNCHANGED cache
    /\ CacheFrame

\* A caller lets go of a value it was handed.
DropReturned ==
    /\ \E i \in DOMAIN refs.held :
        refs' = Collect(cache,
                    [heap |-> refs.heap,
                     held |-> [j \in 1 .. (Len(refs.held) - 1) |->
                                  IF j < i THEN refs.held[j]
                                  ELSE refs.held[j + 1]]])
    /\ call' = [op |-> "drop"]
    /\ ret' = Return(NoVal)
    /\ UNCHANGED cache
    /\ CacheFrame

NextCache == CachedCall \/ MutateReturned \/ DropReturned

SpecCache == InitCache /\ [][NextCache]_vars

\* C13: whatever callers did to the values they were handed, a call of a
\* function under lru_copy_cache returns what the function computes for
\* its arguments, the cache holds that value, and no object is handed out
\* twice or shared with the cache.
C13_CacheUntouched ==
    /\ (call.op = "cached_call" /\ Returned)
        => ret.val = cached_f(call.args).val
    /\ \A a \in DOMAIN cache : refs.heap[cache[a].obj] = cached_f(a).val
    /\ \A i, j \in DOMAIN refs.held :
           i # j => refs.held[i].obj # refs.held[j].obj
    /\ \A i \in DOMAIN refs.held, a \in DOMAIN cache :
           refs.held[i].obj # cache[a].obj

\* A value was altered by its caller, and a later call for the same
\* argument was served from the cache.
C13_Witness ==
    /\ call.op = "cached_call"
    /\ call.hit
    /\ Len(refs.held) = 2
    /\ refs.held[1].args = call.args
    /\ refs.heap[refs.held[1].obj] # cached_f(call.args).val
    /\ ret = cached_f(call.args)

(***************************************************************************)
(* sndata/_utils.py: check_url, download_file, download_tar                *)
(*                                                                         *)
(* The file system is given as an argument and returned with the changes   *)
(* made; net is the list of answers the network gives to the requests of   *)
(* one call, in order.                                                     *)
(***************************************************************************)
Url == "http://host/data.tar.gz"

\* What a file or a response holds: text, or a tar archive with its
\* members in order.
Bytes(text) == [tar |-> <<>>, text |-> text]

TarBytes(members) == [tar |-> members, text |-> "tar"]

Archive ==
    <<[name |-> "a.dat", content |-> Bytes("a of the archive")],
      [name |-> "b.dat", content |-> Bytes("b of the archive")]>>

\* What requests.get(url) can meet: no connection, or a response.
Response(status, content) ==
    [kind |-> "response", status |-> status, content |-> content]

Responses ==
    {[kind |-> "ConnectionError"],
     Response("404", Bytes("not found")),
     Response("200", Bytes("plain text")),
     Response("200", TarBytes(Archive))}

\* A directory entry: a file that can be written, one that cannot, or a
\* directory.
File(name, content, mode) == [name |-> name, content |-> content, mode |-> mode]

\* What a call did: its outcome, the file system it leaves, the requests
\* it made, the warnings it emitted, and what it wrote to its file object.
Effect(r, fs, reqs, warns, written) ==
    [ret |-> r, disk |-> fs, requests |-> reqs, warnings |-> warns,
     written |-> written]

\* A slip that lets the ConnectionError through.
check_url_raise(net) ==
    IF net[1].kind = "ConnectionError"
    THEN [ret |-> Raise("ConnectionError"), warnings |-> <<>>]
    ELSE [ret |-> Return(TRUE), warnings |-> <<>>]

\* check_url(url)
check_url(net) ==
    IF net[1].kind = "ConnectionError"
    THEN [ret |-> Return(FALSE), warnings |-> <<"Could not connect to url">>]
    ELSE [ret |-> Return(TRUE), warnings |-> <<>>]

\* Path.exists() for dir / name
path_exists(fs, dir, name) ==
    fs[dir].exists /\ \E f \in fs[dir].files : f.name = name

\* Path.mkdir(parents=True, exist_ok=True)
mkdir(fs, dir) ==
    IF fs[dir].exists THEN fs ELSE [fs EXCEPT ![dir] = Dir({})]

\* The file system with dir / name holding content.
write_file(fs, dir, name, content) ==
    [fs EXCEPT ![dir] =
        Dir({f \in fs[dir].files : f.name # name}
                \cup {File(name, content, "rw")})]

\* Path.unlink()
unlink(fs, dir, name) ==
    [fs EXCEPT ![dir] = Dir({f \in fs[dir].files : f.name # name})]

\* The error open(path, 'wb') ends with, "none" when it opens the file.
open_wb(fs, dir, name) ==
    IF \E f \in fs[dir].files : f.name = name /\ f.mode = "dir"
    THEN "IsADirectoryError"
    ELSE IF \E f \in fs[dir].files : f.name = name /\ f.mode = "ro"
    THEN "PermissionError"
    ELSE "none"

\* requests.get(url) followed by response.raise_for_status()
get_checked(answer) ==
    IF answer.kind = "ConnectionError" THEN Raise("ConnectionError")
    ELSE IF answer.status # "200" THEN Raise("HTTPError")
    ELSE Return(answer.content)

\* A slip that asks the network before it looks at the path.
download_file_eager(fs, dir, path, file_obj, force, net) ==
    IF file_obj = "None" /\ path = "None"
    THEN Effect(Raise("ValueError"), fs, <<>>, <<>>, Bytes(""))
    ELSE IF file_obj = "None" /\ check_url(net).ret.exc # "none"
    THEN Effect(check_url(net).ret, fs, <<Url>>, check_url(net).warnings, Bytes(""))
    ELSE IF file_obj = "None"
            /\ ~(check_url(net).ret.val /\ (force \/ ~path_exists(fs, dir, path)))
    THEN Effect(Return("None"), fs, <<Url>>, check_url(net).warnings, Bytes(""))
    ELSE Effect(Raise("ConnectionError"), fs, <<Url, Url>>, <<>>, Bytes(""))

\* download_file(url, path, file_obj, force)
download_file(fs, dir, path, file_obj, force, net) ==
    IF file_obj = "None" /\ path = "None"
    THEN Effect(Raise("ValueError"), fs, <<>>, <<>>, Bytes(""))
    ELSE IF file_obj # "None"
    THEN \* the caller's file object is written to
         LET got == get_checked(net[1])
         IN  IF got.exc # "none" THEN Effect(got, fs, <<Url>>, <<>>, Bytes(""))
             ELSE Effect(Return("None"), fs, <<Url>>, <<>>, got.val)
    ELSE IF ~(force \/ ~path_exists(fs, dir, path))
    THEN Effect(Return("None"), fs, <<>>, <<>>, Bytes(""))
    ELSE IF check_url(net).ret.exc # "none"
    THEN Effect(check_url(net).ret, fs, <<Url>>, check_url(net).warnings, Bytes(""))
    ELSE IF ~check_url(net).ret.val
    THEN Effect(Return("None"), fs, <<Url>>, check_url(net).warnings, Bytes(""))
    ELSE
    LET fs1 == mkdir(fs, dir)
    IN
    IF open_wb(fs1, dir, path) # "none"
    THEN Effect(Raise(open_wb(fs1, dir, path)), fs1, <<Url>>, <<>>, Bytes(""))
    ELSE
    LET fs2 == write_file(fs1, dir, path, Bytes(""))
        got == get_checked(net[2])
    IN  IF got.exc # "none" THEN Effect(got, fs2, <<Url, Url>>, <<>>, Bytes(""))
        ELSE Effect(Return("None"), write_file(fs2, dir, path, got.val),
                    <<Url, Url>>, <<>>, Bytes(""))

\* tarfile.open(fileobj=temp_file) reads an archive or fails.
is_archive(content) == content.tar # <<>>

\* data_archive.extract(ffile, path=out_dir): the error it ends with,
\* "none" when the member is written.
extract_error(fs, dir, member) == open_wb(fs, dir, member.name)

\* The loop over the members from the i-th on.
RECURSIVE extract_members(_, _, _, _)
extract_members(fs, dir, archive, i) ==
    IF i > Len(archive) THEN [exc |-> "none", disk |-> fs]
    ELSE IF extract_error(fs, dir, archive[i]) = "none"
    THEN extract_members(
             write_file(fs, dir, archive[i].name, archive[i].content),
             dir, archive, i + 1)
    ELSE \* except IOError: unlink the path and extract again
    IF \E f \in fs[dir].files : f.name = archive[i].name /\ f.mode = "dir"
    THEN [exc |-> "IsADirectoryError", disk |-> fs]
    ELSE extract_members(
             write_file(unlink(fs, dir, archive[i].name), dir,
                        archive[i].name, archive[i].content),
             dir, archive, i + 1)

\* A slip that skips an existing directory whatever force says.
download_tar_skip(fs, out_dir, force, net) ==
    IF fs[out_dir].exists
    THEN Effect(Return("None"), fs, <<>>, <<>>, Bytes(""))
    ELSE IF ~check_url(net).ret.val
    THEN Effect(Return("None"), fs, <<Url>>, check_url(net).warnings, Bytes(""))
    ELSE Effect(Return("None"), mkdir(fs, out_dir), <<Url, Url>>, <<>>, Bytes(""))

\* download_tar(url, out_dir, mode, force)
download_tar(fs, out_dir, force, net) ==
    IF ~(force \/ ~fs[out_dir].exists)
    THEN Effect(Return("None"), fs, <<>>, <<>>, Bytes(""))
    ELSE IF check_url(net).ret.exc # "none"
    THEN Effect(check_url(net).ret, fs, <<Url>>, check_url(net).warnings, Bytes(""))
    ELSE IF ~check_url(net).ret.val
    THEN Effect(Return("None"), fs, <<Url>>, check_url(net).warnings, Bytes(""))
    ELSE
    LET got == download_file(fs, out_dir, "None", "temp_file", FALSE, Tail(net))
    IN
    IF got.ret.exc # "none"
    THEN Effect(got.ret, fs, <<Url>> \o got.requests, <<>>, Bytes(""))
    ELSE
    LET fs1 == mkdir(fs, out_dir)
    IN
    IF ~is_archive(got.written)
    THEN Effect(Raise("ReadError"), fs1, <<Url>> \o got.requests, <<>>, Bytes(""))
    ELSE
    LET done == extract_members(fs1, out_dir, got.written.tar, 1)
    IN  Effect(IF done.exc = "none" THEN Return("None") ELSE Raise(done.exc),
               done.disk, <<Url>> \o got.requests, <<>>, Bytes(""))

\* What the directory may hold before a call.
DownloadPool ==
    {File("a.dat", Bytes("a of old"), "rw"), File("a.dat", Bytes("a of old"), "ro"),
     File("a.dat", Bytes(""), "dir"), File("keep.txt", Bytes("kept"), "rw")}

DownloadIdle ==
    /\ release = "none"
    /\ cache = EmptyDict
    /\ opened = {}
    /\ refs = <<>>
    /\ registry = [loaders |-> {}, instances |-> EmptyDict]
    /\ environ = EmptyDict

InitDownload ==
    /\ DownloadIdle
    /\ disk \in {[data_dir |-> d] : d \in Contents(DownloadPool)}
    /\ requests = <<>>
    /\ warnings = <<>>
    /\ call = NoCall
    /\ ret = Return(NoVal)

DownloadFrame == UNCHANGED <<release, cache, opened, refs, registry, environ>>

\* check_url(url)
CheckUrl ==
    /\ \E answer \in Responses :
        /\ call' = [op |-> "check_url", net |-> <<answer>>, before |-> disk]
        /\ ret' = check_url(<<answer>>).ret
        /\ warnings' = check_url(<<answer>>).warnings
    /\ requests' = <<Url>>
    /\ UNCHANGED disk
    /\ DownloadFrame

\* download_file(url, path, file_obj, force)
DownloadFile ==
    /\ \E path \in {"None", "a.dat"}, file_obj \in {"None", "buffer"},
          force \in BOOLEAN, net \in Responses \X Responses :
        LET out == download_file(disk, "data_dir", path, file_obj, force, net)
        IN  /\ call' = [op |-> "download_file", path |-> path,
                        file_obj |-> file_obj, force |-> force,
                        net |-> net, before |-> disk]
            /\ ret' = out.ret
            /\ disk' = out.disk
            /\ requests' = out.requests
            /\ warnings' = out.warnings
    /\ DownloadFrame

\* download_tar(url, out_dir, force=force)
DownloadTar ==
    /\ \E force \in BOOLEAN, net \in Responses \X Responses :
        LET out == download_tar(disk, "data_dir", force, net)
        IN  /\ call' = [op |-> "download_tar", force |-> force,
                        net |-> net, before |-> disk]
            /\ ret' = out.ret
            /\ disk' = out.disk
            /\ requests' = out.requests
            /\ warnings' = out.warnings
    /\ DownloadFrame

NextDownload == CheckUrl \/ DownloadFile \/ DownloadTar

SpecDownload == InitDownload /\ [][NextDownload]_vars

\* The target of the last call existed when the call was made.
TargetExisted ==
    IF call.op = "download_tar" THEN call.before["data_dir"].exists
    ELSE path_exists(call.before, "data_dir", call.path)

IsDownloadToPath ==
    \/ call.op = "download_tar"
    \/ call.op = "download_file" /\ call.path # "None"
           /\ call.file_obj = "None"

\* C14: without force, download_file on a path that exists and
\* download_tar on a directory that exists make no request and leave the
\* file system as it was.
C14_SkipExisting ==
    (IsDownloadToPath /\ ~call.force /\ TargetExisted)
        => /\ requests = <<>>
           /\ disk = call.before
           /\ ret = Return("None")

C14_Witness ==
    /\ call.op = "download_tar"
    /\ ~call.force
    /\ call.net[1] = Response("200", TarBytes(Archive))
    /\ call.before["data_dir"] = Dir({File("keep.txt", Bytes("kept"), "rw")})
    /\ requests = <<>>
    /\ disk = call.before

\* C15: when download_tar with force=True returns, the url having
\* answered and served an archive, every member of the archive is in
\* out_dir with the archive's content, whatever the directory held before.
C15_ForceExtracts ==
    (call.op = "download_tar" /\ call.force /\ Returned
        /\ call.net[1].kind = "response"
        /\ call.net[2] = Response("200", TarBytes(Archive)))
        => \A i \in DOMAIN Archive :
               \E f \in disk["data_dir"].files :
                   /\ f.name = Archive[i].name
                   /\ f.content = Archive[i].content
                   /\ \A g \in disk["data_dir"].files :
                          g.name = f.name => g = f

C15_Witness ==
    /\ call.op = "download_tar"
    /\ call.force
    /\ Returned
    /\ File("a.dat", Bytes("a of old"), "ro") \in call.before["data_dir"].files
    /\ File("keep.txt", Bytes("kept"), "rw") \in disk["data_dir"].files
    /\ File("a.dat", Bytes("a of the archive"), "rw") \in disk["data_dir"].files
    /\ File("b.dat", Bytes("b of the archive"), "rw") \in disk["data_dir"].files

\* C16: when a download is due (target missing, or force) and no
\* connection can be made, download_file and download_tar warn, return
\* and leave the file system as it was; check_url returns False exactly
\* when no connection can be made, and warns then.
C16_WarnAndSkip ==
    /\ (IsDownloadToPath /\ (call.force \/ ~TargetExisted)
            /\ call.net[1].kind = "ConnectionError")
        => /\ warnings # <<>>
           /\ ret = Return("None")
           /\ disk = call.before
    /\ call.op = "check_url"
        => /\ ret = Return(call.net[1].kind # "ConnectionError")
           /\ (warnings # <<>>) <=> (call.net[1].kind = "ConnectionError")
           /\ disk = call.before

C16_Witness ==
    /\ call.op = "download_file"
    /\ call.path = "a.dat"
    /\ call.file_obj = "None"
    /\ ~call.before["data_dir"].exists
    /\ call.net[1].kind = "ConnectionError"
    /\ warnings # <<>>
    /\ ret = Return("None")
    /\ ~disk["data_dir"].exists

\* C25: when the connection check of download_file(url, path=p) passes and
\* the request then fails (error status, or no connection on the second
\* GET), the target is as before: a file that was at p has its content,
\* and there is no file at p when there was none.
C25_AllOrNothing ==
    (/\ call.op = "download_file"
     /\ call.path # "None"
     /\ call.file_obj = "None"
     /\ Len(requests) = 2
     /\ call.net[1].kind # "ConnectionError"
     /\ ret.exc \in {"HTTPError", "ConnectionError"})
        => {f \in disk["data_dir"].files : f.name = call.path}
              = {f \in call.before["data_dir"].files : f.name = call.path}

(***************************************************************************)
(* sndata/des/_sn3yr.py: SN3YR.download_module_data                        *)
(*                                                                         *)
(* The files under the data directory are named by directory and file, so  *)
(* a directory below it exists when a file lies in it.                     *)
(***************************************************************************)
\* self._filter_dir, self._photometry_dir, self._fits_dir below data_dir
SN3YRDirs ==
    <<"01-FILTERS/DECam", "02-DATA_PHOTOMETRY/DES-SN3YR_DES", "04-BBCFITS">>

\* What the archives at _filter_url, _photometry_url and _fits_url hold.
SN3YRArchives ==
    <<<<[name |-> <<SN3YRDirs[1], "DECam_g.dat">>, content |-> Bytes("g band")],
        [name |-> <<SN3YRDirs[1], "DECam_r.dat">>, content |-> Bytes("r band")]>>,
      <<[name |-> <<SN3YRDirs[2], "des_01248677.dat">>,
         content |-> Bytes("photometry")]>>,
      <<[name |-> <<SN3YRDirs[3], "SALT2mu_DES+LOWZ_C11.FITRES">>,
         content |-> Bytes("fit results")]>>>>

\* How the server of the i-th archive answers during one call.
SN3YRAnswers(i) ==
    {[kind |-> "ConnectionError"],
     Response("404", Bytes("not found")),
     Response("200", Bytes("plain text")),
     Response("200", TarBytes(SN3YRArchives[i]))}

\* Path.exists() of a directory below the data directory
subdir_exists(fs, dir) ==
    fs["data_dir"].exists /\ \E f \in fs["data_dir"].files : f.name[1] = dir

\* One call after another: what both did.
Join(a, b) ==
    Effect(b.ret, b.disk, a.requests \o b.requests, a.warnings \o b.warnings,
           Bytes(""))

\* One 'if (force or not dir.exists()) and check_url(url): download_tar(...)'
SN3YR_download_step(fs, force, dir, answer) ==
    IF ~(force \/ ~subdir_exists(fs, dir))
    THEN Effect(Return("None"), fs, <<>>, <<>>, Bytes(""))
    ELSE IF ~check_url(<<answer>>).ret.val
    THEN Effect(Return("None"), fs, <<Url>>, check_url(<<answer>>).warnings,
                Bytes(""))
    ELSE Join(Effect(Return("None"), fs, <<Url>>, <<>>, Bytes("")),
              download_tar(fs, "data_dir", FALSE, <<answer, answer>>))

\* SN3YR.download_module_data(force)
SN3YR_download_module_data(fs, force, net) ==
    LET a == SN3YR_download_step(fs, force, SN3YRDirs[1], net[1])
        b == Join(a, SN3YR_download_step(a.disk, force, SN3YRDirs[2], net[2]))
        c == Join(b, SN3YR_download_step(b.disk, force, SN3YRDirs[3], net[3]))
    IN  IF a.ret.exc # "none" THEN a
        ELSE IF b.ret.exc # "none" THEN b
        ELSE c

\* SN3YR(): the data directory is found, with what was downloaded to it
\* before, or created.
InitSN3YR ==
    /\ release = "des_sn3yr"
    /\ disk \in {[data_dir |-> Dir({})],
                 [data_dir |-> Dir({File(SN3YRArchives[1][k].name,
                                         SN3YRArchives[1][k].content, "rw") :
                                        k \in DOMAIN SN3YRArchives[1]})]}
    /\ cache = EmptyDict
    /\ opened = {}
    /\ refs = <<>>
    /\ registry = [loaders |-> {}, instances |-> EmptyDict]
    /\ environ = EmptyDict
    /\ requests = <<>>
    /\ warnings = <<>>
    /\ call = NoCall
    /\ ret = Return(NoVal)

\* SN3YR().download_module_data(force)
SN3YRDownloadModuleData ==
    /\ \E force \in BOOLEAN,
          net \in SN3YRAnswers(1) \X SN3YRAnswers(2) \X SN3YRAnswers(3) :
        LET out == SN3YR_download_module_data(disk, force, net)
        IN  /\ call' = [op |-> "download_module_data", force |-> force,
                        net |-> net, before |-> disk]
            /\ ret' = out.ret
            /\ disk' = out.disk
            /\ requests' = out.requests
            /\ warnings' = out.warnings
    /\ UNCHANGED <<release, cache, opened, refs, registry, environ>>

NextSN3YR == SN3YRDownloadModuleData

SpecSN3YR == InitSN3YR /\ [][NextSN3YR]_vars

\* C22: on a SN3YR instance just constructed, with nothing downloaded and
\* the three archives served, download_module_data() leaves the filter,
\* the photometry and the fit directory in place with the content of the
\* archives.
C22_DownloadsRelease ==
    (/\ call.op = "download_module_data"
     /\ ~call.force
     /\ call.before = [data_dir |-> Dir({})]
     /\ \A i \in 1 .. 3 :
            call.net[i] = Response("200", TarBytes(SN3YRArchives[i]))
     /\ Returned)
        => /\ \A i \in 1 .. 3 : subdir_exists(disk, SN3YRDirs[i])
           /\ \A i \in 1 .. 3 : \A k \in DOMAIN SN3YRArchives[i] :
                  File(SN3YRArchives[i][k].name, SN3YRArchives[i][k].content,
                       "rw") \in disk["data_dir"].files

(***************************************************************************)
(* SNData/*/_data_download.py: the function modules of csp.dr1, des.sn3yr  *)
(* and essence.narayan16 with SNData/_utils.py                             *)
(***************************************************************************)
ModuleReleases == {"csp_dr1", "des_sn3yr", "essence_narayan16"}

\* The directories of _meta below meta.data_dir
ModuleDirs(r) ==
    CASE r = "csp_dr1" -> {"table_dir", "spectra_dir"}
      [] r = "des_sn3yr" -> {"filter_dir", "photometry_dir", "fits_dir"}
      [] r = "essence_narayan16" -> {"vizier_dir", "filter_dir"}

\* Path.mkdir(parents=True, exist_ok=True) below the data directory
makedirs(fs, dir) == mkdir(mkdir(fs, "data_dir"), dir)

\* TarFile.extractall: the members land in dir, over files of their names.
extractall(fs, dir, archive) ==
    [makedirs(fs, dir) EXCEPT ![dir] =
        Dir({f \in fs[dir].files :
                \A i \in DOMAIN archive : archive[i].name # f.name}
            \cup {File(archive[i].name, archive[i].content, "rw") :
                     i \in DOMAIN archive})]

\* SNData download_file(url, out_file) to a path
SNData_download_file(fs, url, dir, name, answer) ==
    LET got == get_checked(answer)
    IN  IF got.exc # "none" THEN Effect(got, fs, <<url>>, <<>>, Bytes(""))
        ELSE Effect(Return("None"),
                    write_file(makedirs(fs, dir), dir, name, got.val),
                    <<url>>, <<>>, Bytes(""))

\* SNData download_tar(url, out_dir, mode); the archive's members lie in
\* the directory lands, which is out_dir or a directory of the archive.
SNData_download_tar(fs, url, out_dir, lands, answer) ==
    LET fs1 == makedirs(fs, out_dir)
        got == get_checked(answer)
    IN  IF got.exc # "none" THEN Effect(got, fs1, <<url>>, <<>>, Bytes(""))
        ELSE IF ~is_archive(got.val)
        THEN Effect(Raise("ReadError"), fs1, <<url>>, <<>>, Bytes(""))
        ELSE Effect(Return("None"), extractall(fs1, lands, got.val.tar),
                    <<url>>, <<>>, Bytes(""))

Skipped(fs) == Effect(Return("None"), fs, <<>>, <<>>, Bytes(""))

\* One call after another, the second made only when the first returns.
Then(a, b) == IF a.ret.exc # "none" THEN a ELSE Join(a, b)

\* csp.dr1 download_module_data()
SNData_dr1_download_module_data(fs, net) ==
    LET a == IF ~fs["table_dir"].exists
             THEN SNData_download_tar(fs, "table_url", "table_dir",
                                      "table_dir", net[1])
             ELSE Skipped(fs)
        b == IF ~a.disk["spectra_dir"].exists
             THEN SNData_download_tar(a.disk, "spectra_url", "data_dir",
                                      "spectra_dir", net[2])
             ELSE Skipped(a.disk)
    IN  Then(a, b)

\* des.sn3yr download_module_data()
SNData_sn3yr_download_module_data(fs, net) ==
    LET a == IF ~fs["filter_dir"].exists
             THEN SNData_download_tar(fs, "filter_url", "data_dir",
                                      "filter_dir", net[1])
             ELSE Skipped(fs)
        b == IF ~a.disk["photometry_dir"].exists
             THEN SNData_download_tar(a.disk, "photometry_url", "data_dir",
                                      "photometry_dir", net[2])
             ELSE Skipped(a.disk)
        ab == Then(a, b)
        c == IF ~ab.disk["fits_dir"].exists
             THEN SNData_download_tar(ab.disk, "fits_url", "data_dir",
                                      "fits_dir", net[3])
             ELSE Skipped(ab.disk)
    IN  Then(ab, c)

\* essence.narayan16 download_module_data(force)
SNData_narayan16_download_module_data(fs, force, net) ==
    LET a == IF force \/ ~fs["vizier_dir"].exists
             THEN SNData_download_tar(fs, "table_url", "vizier_dir",
                                      "vizier_dir", net[1])
             ELSE Skipped(fs)
        filters == force \/ ~a.disk["filter_dir"].exists
        b == IF filters
             THEN SNData_download_file(a.disk, "i_filter_url", "filter_dir",
                                       "I_band.dat", net[2])
             ELSE Skipped(a.disk)
        ab == Then(a, b)
        c == IF filters
             THEN SNData_download_file(ab.disk, "r_filter_url", "filter_dir",
                                       "R_band.dat", net[3])
             ELSE Skipped(ab.disk)
    IN  Then(ab, c)

\* shutil.rmtree(meta.data_dir)
rmtree(fs) ==
    IF ~fs["data_dir"].exists THEN [exc |-> "FileNotFoundError", disk |-> fs]
    ELSE [exc |-> "none", disk |-> [dir \in DOMAIN fs |-> NoDir]]

\* delete_module_data(): csp.dr1 calls rmtree, des.sn3yr and
\* essence.narayan16 call it under 'except FileNotFoundError: pass'.
SNData_delete_module_data(r, fs) ==
    IF r = "csp_dr1" /\ rmtree(fs).exc # "none"
    THEN Effect(Raise(rmtree(fs).exc), fs, <<>>, <<>>, Bytes(""))
    ELSE Effect(Return("None"), rmtree(fs).disk, <<>>, <<>>, Bytes(""))

\* data_is_available()
data_is_available(fs) == fs["data_dir"].exists

\* The module imported, no data downloaded.
InitModule ==
    /\ release \in ModuleReleases
    /\ disk = [dir \in {"data_dir"} \cup ModuleDirs(release) |-> NoDir]
    /\ cache = EmptyDict
    /\ opened = {}
    /\ refs = <<>>
    /\ registry = [loaders |-> {}, instances |-> EmptyDict]
    /\ environ = EmptyDict
    /\ requests = <<>>
    /\ warnings = <<>>
    /\ call = NoCall
    /\ ret = Return(NoVal)

\* download_module_data()
DownloadModuleData ==
    /\ \E force \in BOOLEAN, net \in Responses \X Responses \X Responses :
        LET out ==
              CASE release = "csp_dr1" ->
                     SNData_dr1_download_module_data(disk, net)
                [] release = "des_sn3yr" ->
                     SNData_sn3yr_download_module_data(disk, net)
                [] release = "essence_narayan16" ->
                     SNData_narayan16_download_module_data(disk, force, net)
        IN  /\ release = "essence_narayan16" \/ ~force
            /\ call' = [op |-> "download_module_data", force |-> force,
                        net |-> net, before |-> disk, again |-> FALSE]
            /\ ret' = out.ret
            /\ disk' = out.disk
            /\ requests' = out.requests
    /\ UNCHANGED <<release, cache, opened, refs, warnings, registry, environ>>

\* delete_module_data()
DeleteModuleData ==
    /\ LET out == SNData_delete_module_data(release, disk)
       IN  /\ call' = [op |-> "delete_module_data", before |-> disk,
                       again |-> call.op = "delete_module_data"]
           /\ ret' = out.ret
           /\ disk' = out.disk
           /\ requests' = out.requests
    /\ UNCHANGED <<release, cache, opened, refs, warnings, registry, environ>>

NextModule == DownloadModuleData \/ DeleteModuleData

SpecModule == InitModule /\ [][NextModule]_vars

IsDelete == call.op = "delete_module_data"

\* C21: delete_module_data of csp.dr1, des.sn3yr and essence.narayan16
\* returns whatever has been downloaded, leaves no data directory, and
\* changes nothing when called again.
C21_DeleteAnyState ==
    IsDelete
        => /\ Returned
           /\ ~data_is_available(disk)
           /\ call.again => disk = call.before

\* C21 for des.sn3yr and essence.narayan16, whose delete_module_data
\* passes over a data directory that is not there.
C21_DeleteGuarded ==
    (IsDelete /\ release \in {"des_sn3yr", "essence_narayan16"})
        => /\ Returned
           /\ ~data_is_available(disk)
           /\ \A dir \in DOMAIN disk : ~disk[dir].exists
           /\ call.again => disk = call.before

\* The table archive as extracted into the table directory.
TablesExtracted(fs) ==
    \A i \in DOMAIN Archive :
        File(Archive[i].name, Archive[i].content, "rw")
            \in fs["table_dir"].files

\* C24: in csp.dr1 the table directory exists only with the table archive
\* extracted into it, after downloads that broke off included, and a
\* download made while the tables are missing requests them.
C24_TablesOrNothing ==
    release = "csp_dr1"
        => /\ disk["table_dir"].exists => TablesExtracted(disk)
           /\ (call.op = "download_module_data"
                   /\ ~TablesExtracted(call.before))
                  => \E i \in DOMAIN requests : requests[i] = "table_url"

(***************************************************************************)
(* sndata/_utils.py: register_filter                                       *)
(*                                                                         *)
(* The registry of sncosmo holds the names of the builtin bandpasses it    *)
(* can load and the bandpasses created so far, by name.                    *)
(***************************************************************************)
\* The filter files a release ships, and the transmission curve in each.
FilterFiles ==
    {[name |-> "B_band.dat", data |-> "curve of B_band.dat"],
     [name |-> "V_band.dat", data |-> "curve of V_band.dat"]}

FilterPaths == {"B_band.dat", "V_band.dat", "missing.dat"}

FilterNames == {"bessellb", "csp_dr3_B", "csp_dr3_V"}

\* sncosmo.Bandpass(wave, trans) with band.name = name
Bandpass(name, data) == [name |-> name, data |-> data]

\* sncosmo.register(band, force): the registry after it, or the error.
sncosmo_register(reg, band, force) ==
    IF band.name \in DOMAIN reg.instances /\ ~force
    THEN [exc |-> "Exception", registry |-> reg]
    ELSE [exc |-> "none",
          registry |-> [reg EXCEPT !.instances =
                            Put(reg.instances, band.name, band)]]

\* A slip that registers without looking the name up.
register_filter_always(fs, reg, file_path, filter_name, force) ==
    IF ~path_exists(fs, "filter_dir", file_path)
    THEN [ret |-> Raise("OSError"), registry |-> reg, opened |-> {}]
    ELSE LET band == Bandpass(filter_name,
                         FileAt("filter_dir", file_path).data)
             done == sncosmo_register(reg, band, TRUE)
         IN  [ret |-> Return("None"), registry |-> done.registry,
              opened |-> {file_path}]

\* register_filter(file_path, filter_name, force)
register_filter(fs, reg, file_path, filter_name, force) ==
    LET available_bands == reg.loaders \cup DOMAIN reg.instances
    IN
    IF filter_name \in available_bands
    THEN [ret |-> Return("None"), registry |-> reg, opened |-> {}]
    ELSE IF ~path_exists(fs, "filter_dir", file_path)
    THEN [ret |-> Raise("OSError"), registry |-> reg, opened |-> {}]
    ELSE LET band == Bandpass(filter_name,
                         FileAt("filter_dir", file_path).data)
             done == sncosmo_register(reg, band, force)
         IN  IF done.exc # "none"
             THEN [ret |-> Raise(done.exc), registry |-> reg,
                   opened |-> {file_path}]
             ELSE [ret |-> Return("None"), registry |-> done.registry,
                   opened |-> {file_path}]

FilterIdle ==
    /\ release = "none"
    /\ cache = EmptyDict
    /\ refs = <<>>
    /\ requests = <<>>
    /\ warnings = <<>>
    /\ environ = EmptyDict

\* Before the first call sncosmo knows its builtin bands, and a band of
\* the release may have been registered already.
InitFilter ==
    /\ FilterIdle
    /\ disk \in {[filter_dir |-> d] : d \in Contents(FilterFiles)}
    /\ registry \in
           {[loaders |-> {"bessellb"}, instances |-> EmptyDict],
            [loaders |-> {"bessellb"},
             instances |-> [n \in {"csp_dr3_B"} |->
                              Bandpass(n, "curve registered before")]]}
    /\ opened = {}
    /\ call = NoCall
    /\ ret = Return(NoVal)

\* register_filter(file_path, filter_name, force)
RegisterFilter ==
    /\ \E file_path \in FilterPaths, filter_name \in FilterNames,
          force \in BOOLEAN :
        LET out == register_filter(disk, registry, file_path, filter_name,
                                   force)
        IN  /\ call' = [op |-> "register_filter", file_path |-> file_path,
                        filter_name |-> filter_name, force |-> force,
                        before |-> registry,
                        again |-> /\ call.op = "register_filter"
                                  /\ call.file_path = file_path
                                  /\ call.filter_name = filter_name
                                  /\ call.force = force]
            /\ ret' = out.ret
            /\ registry' = out.registry
            /\ opened' = out.opened
    /\ UNCHANGED <<release, disk, cache, refs, requests, warnings, environ>>

NextFilter == RegisterFilter

SpecFilter == InitFilter /\ [][NextFilter]_vars

IsRegister == call.op = "register_filter"

\* The name was registered, as a builtin or as an instance, when the call
\* was made.
WasRegistered ==
    call.filter_name \in call.before.loaders \cup DOMAIN call.before.instances

\* C17: after register_filter with force=True on a name that is already
\* registered, the entry of that name is the bandpass read from file_path.
C17_ForceReplaces ==
    (IsRegister /\ call.force /\ WasRegistered
        /\ path_exists(disk, "filter_dir", call.file_path))
        => /\ call.filter_name \in DOMAIN registry.instances
           /\ registry.instances[call.filter_name] =
                  Bandpass(call.filter_name,
                           FileAt("filter_dir", call.file_path).data)

\* C18: with force=False, register_filter leaves the registry alone and
\* reads no file when the name is registered, and otherwise adds the one
\* entry of that name when it returns; a call repeated with the same
\* arguments changes nothing.
C18_LookupOrInsert ==
    /\ (IsRegister /\ ~call.force /\ WasRegistered)
        => /\ registry = call.before
           /\ opened = {}
           /\ ret = Return("None")
    /\ (IsRegister /\ ~call.force /\ ~WasRegistered /\ Returned)
        => /\ registry.loaders = call.before.loaders
           /\ DOMAIN registry.instances =
                  (DOMAIN call.before.instances) \cup {call.filter_name}
           /\ \A n \in DOMAIN call.before.instances :
                  registry.instances[n] = call.before.instances[n]
           /\ registry.instances[call.filter_name] =
                  Bandpass(call.filter_name,
                           FileAt("filter_dir", call.file_path).data)
    /\ (IsRegister /\ ~call.force /\ call.again) => registry = call.before

C18_Witness ==
    /\ IsRegister
    /\ ~call.force
    /\ call.again
    /\ call.filter_name = "csp_dr3_V"
    /\ call.file_path = "V_band.dat"
    /\ "csp_dr3_V" \in DOMAIN registry.instances
    /\ registry = call.before
    /\ opened = {}

(***************************************************************************)
(* sndata/_utils.py: hourangle_to_degrees                                  *)
(*                                                                         *)
(* Angles are counted in arcseconds, so that every value is an integer:    *)
(* one degree is 3600, and one hour of right ascension is 15 degrees.      *)
(***************************************************************************)
\* Angle((rah, ram, ras), unit='hourangle').to('deg').value
hourangle_ra(rah, ram, ras) == 15 * (3600 * rah + 60 * ram + ras)

hourangle_to_degrees(rah, ram, ras, dec_sign, decd, decm, decs) ==
    LET ra == hourangle_ra(rah, ram, ras)
        sign == IF dec_sign = "-" THEN -1 ELSE 1
        dec == sign * (3600 * decd) + 60 * decm + decs
    IN  [ra |-> ra, dec |-> dec]

AngleIdle ==
    /\ release = "none"
    /\ disk = <<>>
    /\ cache = EmptyDict
    /\ opened = {}
    /\ WorldIdle

InitAngle ==
    /\ AngleIdle
    /\ call = NoCall
    /\ ret = Return(NoVal)

\* hourangle_to_degrees(rah, ram, ras, dec_sign, decd, decm, decs)
ConvertAngle ==
    \E rah, ram \in 0 .. 1, dec_sign \in {"+", "-"},
       decd, decm, decs \in 0 .. MaxAngle :
        /\ call' = [op |-> "hourangle_to_degrees", rah |-> rah, ram |-> ram,
                    ras |-> 0, dec_sign |-> dec_sign, decd |-> decd,
                    decm |-> decm, decs |-> decs]
        /\ ret' = Return(hourangle_to_degrees(rah, ram, 0, dec_sign, decd,
                                              decm, decs))
        /\ UNCHANGED <<release, disk, cache, opened, world>>

NextAngle == ConvertAngle

SpecAngle == InitAngle /\ [][NextAngle]_vars

\* C19: with dec_sign '-' the declination returned is
\* -(decd + decm/60 + decs/3600), the negation of the one returned with
\* '+'.
C19_SignOfDeclination ==
    call.op = "hourangle_to_degrees"
        => ret.val.dec =
               (IF call.dec_sign = "-" THEN -1 ELSE 1)
                   * (3600 * call.decd + 60 * call.decm + call.decs)

(***************************************************************************)
(* sndata/_utils.py: find_and_create_data_dir                              *)
(*                                                                         *)
(* A path is the sequence of its components; disk maps every path the     *)
(* function can name, and every directory above it, to what is there.      *)
(***************************************************************************)
UpperCase ==
    <<"A", "B", "C", "D", "E", "F", "G", "H", "I", "J", "K", "L", "M",
      "N", "O", "P", "Q", "R", "S", "T", "U", "V", "W", "X", "Y", "Z">>

LowerCase ==
    <<"a", "b", "c", "d", "e", "f", "g", "h", "i", "j", "k", "l", "m",
      "n", "o", "p", "q", "r", "s", "t", "u", "v", "w", "x", "y", "z">>

\* str.lower()
lower(s) ==
    [i \in DOMAIN s |->
        IF \E k \in DOMAIN UpperCase : UpperCase[k] = s[i]
        THEN LowerCase[CHOOSE k \in DOMAIN UpperCase : UpperCase[k] = s[i]]
        ELSE s[i]]

\* str.replace(old, new) for one-character strings
replace(s, old, new) == [i \in DOMAIN s |-> IF s[i] = old THEN new ELSE s[i]]

\* Path(__file__).resolve().parent / 'data'
PackageData == <<"site-packages", "sndata", "data">>

\* Path(os.environ['SNDATA_DIR']).resolve() for an absolute path
resolve(path) == path

\* The values SNDATA_DIR is set to.
DataDirs == {<<"srv", "sndata">>}

Environs ==
    {EmptyDict} \cup {[k \in {"SNDATA_DIR"} |-> d] : d \in DataDirs}

SurveyAbbrevs == {<<"C", "S", "P">>, <<"c", "s", "p">>, <<"D", "a", "r", "k", " ", "E", "n", "e", "r", "g", "y">>}

ReleaseNames == {<<"D", "R", "1">>, <<"d", "r", "1">>, <<"S", "N", " ", "3", "Y", "R">>}

\* The path the function names, as the code builds it.
data_dir_of(env, survey_abbrev, release_name) ==
    LET safe_survey == replace(lower(survey_abbrev), " ", "_")
        safe_release == replace(lower(release_name), " ", "_")
        base_dir == IF "SNDATA_DIR" \in DOMAIN env
                    THEN resolve(env["SNDATA_DIR"])
                    ELSE PackageData
    IN  base_dir \o <<safe_survey, safe_release>>

\* The directories at and above a path.
Prefixes(path) == {SubSeq(path, 1, n) : n \in 1 .. Len(path)}

TreePaths ==
    UNION {Prefixes(data_dir_of(env, s, r)) :
              env \in Environs, s \in SurveyAbbrevs, r \in ReleaseNames}

\* Path.mkdir(parents=True, exist_ok=True)
mkdir_parents(fs, path) ==
    [q \in DOMAIN fs |->
        IF q \in Prefixes(path) /\ ~fs[q].exists THEN Dir({}) ELSE fs[q]]

\* A slip that keeps the letter case of the names.
find_and_create_data_dir_cased(fs, env, survey_abbrev, release_name) ==
    LET base_dir == IF "SNDATA_DIR" \in DOMAIN env
                    THEN resolve(env["SNDATA_DIR"])
                    ELSE PackageData
        data_dir == base_dir \o <<replace(survey_abbrev, " ", "_"),
                                  replace(release_name, " ", "_")>>
    IN  [ret |-> Return(data_dir),
         disk |-> IF data_dir \in DOMAIN fs THEN mkdir_parents(fs, data_dir)
                  ELSE fs]

\* find_and_create_data_dir(survey_abbrev, release)
find_and_create_data_dir(fs, env, survey_abbrev, release_name) ==
    LET data_dir == data_dir_of(env, survey_abbrev, release_name)
    IN  [ret |-> Return(data_dir), disk |-> mkdir_parents(fs, data_dir)]

\* Nothing downloaded yet, or the CSP DR1 data in place under SNDATA_DIR.
EmptyTree == [q \in TreePaths |-> NoDir]

TreeWithData ==
    [q \in TreePaths |->
        IF q = <<"srv", "sndata", <<"c", "s", "p">>, <<"d", "r", "1">>>>
        THEN Dir({[name |-> "spectra.tgz", content |-> "data"]})
        ELSE IF q \in Prefixes(<<"srv", "sndata", <<"c", "s", "p">>, <<"d", "r", "1">>>>)
        THEN Dir({})
        ELSE NoDir]

DirIdle ==
    /\ release = "none"
    /\ cache = EmptyDict
    /\ opened = {}
    /\ refs = <<>>
    /\ requests = <<>>
    /\ warnings = <<>>
    /\ registry = [loaders |-> {}, instances |-> EmptyDict]

InitDir ==
    /\ DirIdle
    /\ disk \in {EmptyTree, TreeWithData}
    /\ environ \in Environs
    /\ call = NoCall
    /\ ret = Return(NoVal)

DirFrame ==
    UNCHANGED <<release, cache, opened, refs, requests, warnings, registry>>

\* find_and_create_data_dir(survey_abbrev, release)
FindAndCreateDataDir ==
    /\ \E survey_abbrev \in SurveyAbbrevs, release_name \in ReleaseNames :
        LET out == find_and_create_data_dir(disk, environ, survey_abbrev,
                                            release_name)
        IN  /\ call' = [op |-> "find_and_create_data_dir",
                        survey_abbrev |-> survey_abbrev,
                        release |-> release_name,
                        environ |-> environ,
                        before |-> disk,
                        prev |-> IF call.op = "find_and_create_data_dir"
                                 THEN <<[survey_abbrev |-> call.survey_abbrev,
                                         release |-> call.release,
                                         environ |-> call.environ,
                                         ret |-> ret]>>
                                 ELSE <<>>]
            /\ ret' = out.ret
            /\ disk' = out.disk
    /\ UNCHANGED environ
    /\ DirFrame

\* SNDATA_DIR is set or unset between two calls.
SetEnviron ==
    /\ \E env \in Environs \ {environ} : environ' = env
    /\ call' = [op |-> "set_environ"]
    /\ ret' = Return(NoVal)
    /\ UNCHANGED disk
    /\ DirFrame

NextDir == FindAndCreateDataDir \/ SetEnviron

SpecDir == InitDir /\ [][NextDir]_vars

\* safe is name with every upper-case letter in lower case and every space
\* an underscore.
IsSafeForm(name, safe) ==
    /\ Len(safe) = Len(name)
    /\ \A i \in DOMAIN name :
           \/ name[i] = " " /\ safe[i] = "_"
           \/ \E k \in DOMAIN UpperCase :
                  name[i] = UpperCase[k] /\ safe[i] = LowerCase[k]
           \/ /\ name[i] # " "
              /\ \A k \in DOMAIN UpperCase : name[i] # UpperCase[k]
              /\ safe[i] = name[i]

\* Two names that differ in letter case at most.
SameButCase(a, b) ==
    /\ Len(a) = Len(b)
    /\ \A i \in DOMAIN a :
           \/ a[i] = b[i]
           \/ \E k \in DOMAIN UpperCase :
                  {a[i], b[i]} = {UpperCase[k], LowerCase[k]}

IsFindDir == call.op = "find_and_create_data_dir"

\* C20: find_and_create_data_dir returns <base>/<survey>/<release>, the
\* names in lower case with underscores for spaces and <base> the
\* directory SNDATA_DIR names when set, the package's otherwise; the
\* directory exists afterwards, what existed before is as it was, and a
\* call with the same names up to letter case returns the same path and
\* changes nothing.
C20_DataDir ==
    IsFindDir =>
        /\ Returned
        /\ Len(ret.val) >= 2
        /\ SubSeq(ret.val, 1, Len(ret.val) - 2) =
               (IF "SNDATA_DIR" \in DOMAIN call.environ
                THEN call.environ["SNDATA_DIR"] ELSE PackageData)
        /\ IsSafeForm(call.survey_abbrev, ret.val[Len(ret.val) - 1])
        /\ IsSafeForm(call.release, ret.val[Len(ret.val)])
        /\ ret.val \in DOMAIN disk
        /\ \A q \in Prefixes(ret.val) : disk[q].exists
        /\ \A q \in DOMAIN disk :
               IF call.before[q].exists THEN disk[q] = call.before[q]
               ELSE disk[q] = NoDir \/ (q \in Prefixes(ret.val) /\ disk[q] = Dir({}))
        /\ \A i \in DOMAIN call.prev :
               (/\ SameButCase(call.prev[i].survey_abbrev, call.survey_abbrev)
                /\ SameButCase(call.prev[i].release, call.release)
                /\ call.prev[i].environ = call.environ)
               => /\ ret = call.prev[i].ret
                  /\ disk = call.before

\* A second call, in other letter case, for a directory that holds data.
C20_Witness ==
    /\ IsFindDir
    /\ call.survey_abbrev = <<"C", "S", "P">>
    /\ call.release = <<"d", "r", "1">>
    /\ call.prev # <<>>
    /\ call.prev[1].survey_abbrev = <<"c", "s", "p">>
    /\ call.prev[1].release = <<"D", "R", "1">>
    /\ call.prev[1].environ = call.environ
    /\ ret = Return(<<"srv", "sndata", <<"c", "s", "p">>, <<"d", "r", "1">>>>)
    /\ disk[ret.val] = Dir({[name |-> "spectra.tgz", content |-> "data"]})

(***************************************************************************)
(* Claims about load_table after a deletion                                *)
(***************************************************************************)
\* C26: jla.betoule14.load_table raises NoDownloadedData on every call
\* made while the table directory does not exist, a call for a table
\* loaded before the data were deleted included.
C26_MissingDataEveryCall ==
    (call.op = "load_table" /\ ~exists("table_dir"))
        => ret.exc = "NoDownloadedData"

(***************************************************************************)
(* Claims about the bands of Narayan16                                     *)
(***************************************************************************)
\* C27: in a table Narayan16.get_data_for_id returns with
\* format_table=True every band is one of the release's band_names and
\* every zp is the zero_point declared for that band.
C27_DeclaredBands ==
    (IsGetData /\ release = "essence_narayan16" /\ call.format_table
        /\ Returned)
        => \A i \in DOMAIN ret.val.rows :
              \E b \in DOMAIN Narayan16_band_names :
                 /\ ret.val.rows[i]["band"] = Narayan16_band_names[b]
                 /\ ret.val.rows[i]["zp"] = Narayan16_zero_point[b]

(***************************************************************************)
(* Claims about read_vizier_table_descriptions                             *)
(***************************************************************************)
\* <ID> of 'table<ID>.dat': the name without its first five and its last
\* four characters, a number when all of it is digits.
TableIdOf(name) == TableNum(SubSeq(name, 6, Len(name) - 4))

RECURSIVE WordsOf(_)
WordsOf(lines) ==
    IF lines = <<>> THEN <<>>
    ELSE <<Head(lines).first>> \o Head(lines).rest \o WordsOf(Tail(lines))

\* C23: read_vizier_table_descriptions returns one entry per row
\* 'table<ID>.dat' of the File Summary, under the key <ID>, with the row's
\* explanation followed by its continuation lines; the lines before the
\* summary and after its closing line add nothing.
C23_OneEntryPerRow ==
    (call.op = "read_vizier_table_descriptions")
        => /\ Returned
           /\ DOMAIN ret.val =
                  {TableIdOf(call.rows[i].name) : i \in DOMAIN call.rows}
           /\ \A i \in DOMAIN call.rows :
                  ret.val[TableIdOf(call.rows[i].name)] =
                      call.rows[i].text \o WordsOf(call.rows[i].more)

=============================================================================
